---- MODULE Spec2Model ----
(***************************************************************************)
(* A model of maude-cli: the remote fetch loop with its exclusion filter   *)
(* (maudecli/api.py) and the content-addressed ingestion pipeline          *)
(* (maudecli/db.py, data/build.py).                                        *)
(*                                                                         *)
(* Text is a string; lower(), `in`, find, slicing, split and join are      *)
(* computed character by character.  JSON values are tagged records:       *)
(* [t |-> "str", v |-> text], [t |-> "obj", v |-> record],                 *)
(* [t |-> "list", v |-> sequence].                                         *)
(***************************************************************************)
EXTENDS Integers, Sequences, FiniteSets, TLC

\* ------------------------------------------------------------------ bounds

\* Requests one fetch_results invocation may issue before the model stops it.
MaxRequests == 3

\* The build_database runs and the file changes of a behaviour.
MaxRuns == 2

MaxEdits == 1

\* ------------------------------------------------------------------- text

\* str.lower() maps each of these characters and leaves the others alone.
LowerOf ==
    [A |-> "a", B |-> "b", C |-> "c", D |-> "d", E |-> "e", F |-> "f",
     G |-> "g", H |-> "h", I |-> "i", J |-> "j", K |-> "k", L |-> "l",
     M |-> "m", N |-> "n", O |-> "o", P |-> "p", Q |-> "q", R |-> "r",
     S |-> "s", T |-> "t", U |-> "u", V |-> "v", W |-> "w", X |-> "x",
     Y |-> "y", Z |-> "z"]

Digits == "0123456789"

\* s[i - 1] in Python: the i-th character of s, as a string.
char_at(s, i) == SubSeq(s, i, i)

\* str.lower() on one character.
lower_char(c) == IF c \in DOMAIN LowerOf THEN LowerOf[c] ELSE c

RECURSIVE lower_from(_, _)
\* The characters of s from the i-th on, in lower case.
lower_from(s, i) ==
    IF i > Len(s) THEN ""
    ELSE lower_char(char_at(s, i)) \o lower_from(s, i + 1)

\* str.lower()
str_lower(s) == lower_from(s, 1)

\* Python's `t in s` on strings: t occurs in s as a contiguous substring.
str_in(t, s) ==
    \E i \in 0..(Len(s) - Len(t)) : SubSeq(s, i + 1, i + Len(t)) = t

\* str.startswith(prefix)
str_startswith(s, prefix) ==
    /\ Len(prefix) <= Len(s)
    /\ SubSeq(s, 1, Len(prefix)) = prefix

RECURSIVE join_from(_, _, _)
\* parts[i], parts[i + 1], ... joined by sep.
join_from(sep, parts, i) ==
    IF i > Len(parts) THEN ""
    ELSE IF i = Len(parts) THEN parts[i]
    ELSE parts[i] \o sep \o join_from(sep, parts, i + 1)

\* sep.join(parts)
str_join(sep, parts) == join_from(sep, parts, 1)

\* The 1-based positions of s, from the i-th on, that hold the character c.
positions_from(s, c, i) == {j \in i..Len(s) : char_at(s, j) = c}

\* The least element of a non-empty set of integers.
least(S) == CHOOSE j \in S : \A k \in S : j <= k

\* Python's str.find(c) for a one-character c: the 0-based index or -1.
str_find(s, c) ==
    IF positions_from(s, c, 1) = {} THEN -1
    ELSE least(positions_from(s, c, 1)) - 1

\* Python's s[start:end] for start >= 0 and any end (a negative end counts
\* from the right).
str_slice(s, start, end) ==
    LET e0 == IF end < 0 THEN end + Len(s) ELSE end
        e == IF e0 < 0 THEN 0 ELSE IF e0 > Len(s) THEN Len(s) ELSE e0
    IN  IF start >= e THEN "" ELSE SubSeq(s, start + 1, e)

RECURSIVE split_from(_, _, _)
\* The pieces of s, from the i-th character on, between occurrences of c.
split_from(s, c, i) ==
    IF positions_from(s, c, i) = {} THEN <<SubSeq(s, i, Len(s))>>
    ELSE <<SubSeq(s, i, least(positions_from(s, c, i)) - 1)>>
         \o split_from(s, c, least(positions_from(s, c, i)) + 1)

\* str.split(c) for a one-character c.
str_split(s, c) == split_from(s, c, 1)

RECURSIVE replace_from(_, _, _, _)
\* The characters of s from the i-th on, with every a replaced by b.
replace_from(s, a, b, i) ==
    IF i > Len(s) THEN ""
    ELSE (IF char_at(s, i) = a THEN b ELSE char_at(s, i))
         \o replace_from(s, a, b, i + 1)

\* str.replace(a, b) for a one-character a.
str_replace(s, a, b) == replace_from(s, a, b, 1)

RECURSIVE int_str(_)
\* str(n) for n >= 0.
int_str(n) ==
    IF n < 10 THEN char_at(Digits, n + 1)
    ELSE int_str(n \div 10) \o char_at(Digits, (n % 10) + 1)

RECURSIVE int_upto(_, _)
\* The number written by the first i characters of the digit string s.
int_upto(s, i) ==
    IF i = 0 THEN 0
    ELSE 10 * int_upto(s, i - 1) + str_find(Digits, char_at(s, i))

\* int(s) for a string of decimal digits.
str_int(s) == int_upto(s, Len(s))

RECURSIVE SeqConcat(_)
\* The concatenation of a sequence of sequences.
SeqConcat(ss) == IF ss = <<>> THEN <<>> ELSE Head(ss) \o SeqConcat(Tail(ss))

\* Python's None, and a value that is not None.
None == [isNone |-> TRUE]

Some(v) == [isNone |-> FALSE, v |-> v]

\* The outcome of evaluating an expression: a value or a raised exception.
Ok(v) == [raised |-> FALSE, v |-> v]

Raise(e) == [raised |-> TRUE, exc |-> e]

\* ------------------------------------------------------------ exceptions

NoExc == [type |-> "none"]

\* An exception the code does not define (KeyError, TypeError, ...).
Builtin(type) == [type |-> type]

CantConvertToStringError(obj_type) ==
    [type |-> "CantConvertToStringError",
     message |-> "Object of type " \o obj_type
                 \o " can not be converted to a string"]

InvalidSearchFieldError(field) ==
    [type |-> "InvalidSearchFieldError",
     message |-> "Invalid search field: '" \o field \o "'",
     field |-> field]

APIRateLimitError(reset_time) ==
    [type |-> "APIRateLimitError", reset_time |-> reset_time]

APIConnectionError(reason) ==
    [type |-> "APIConnectionError", reason |-> reason]

APIResponseError(status_code, message) ==
    [type |-> "APIResponseError", status_code |-> status_code,
     api_message |-> message]

\* --------------------------------------------------------- JSON records

JStr(s) == [t |-> "str", v |-> s]

JObj(f) == [t |-> "obj", v |-> f]

JList(q) == [t |-> "list", v |-> q]

\* ------------------------------------------------------ exclusion filter

RECURSIVE _get_item_text(_, _)
\* The leaves under the dotted path `field`; a list met on the way is
\* flattened.  A missing key raises KeyError, indexing a string TypeError.
_get_item_text(item, field) ==
    LET items == IF item.t = "list" THEN item.v ELSE <<item>>
        parts == str_split(field, ".")
        next_field == Head(parts)
        rest == Tail(parts)
        one(obj) ==
            IF obj.t # "obj" THEN Raise(Builtin("TypeError"))
            ELSE IF next_field \notin DOMAIN obj.v
            THEN Raise(Builtin("KeyError"))
            ELSE IF rest # <<>>
            THEN _get_item_text(obj.v[next_field], str_join(".", rest))
            ELSE Ok(<<obj.v[next_field]>>)
        each == [i \in 1..Len(items) |-> one(items[i])]
    IN  IF \E i \in 1..Len(each) : each[i].raised
        THEN each[CHOOSE i \in 1..Len(each) :
                    /\ each[i].raised
                    /\ \A j \in 1..(i - 1) : ~each[j].raised]
        ELSE Ok(SeqConcat([i \in 1..Len(each) |-> each[i].v]))

\* " ".join(_get_item_text(r, field)).lower(); joining a leaf that is not a
\* string raises TypeError.
item_text(r, field) ==
    LET got == _get_item_text(r, field)
    IN  IF got.raised THEN got
        ELSE IF \E i \in 1..Len(got.v) : got.v[i].t # "str"
        THEN Raise(Builtin("TypeError"))
        ELSE Ok(str_lower(str_join(" ",
                    [i \in 1..Len(got.v) |-> got.v[i].v])))

\* A condition that keeps a record unless every group has a term in it.
filter_keeps_unless_all(r, exclude_terms, field) ==
    \E g \in 1..Len(exclude_terms) :
        \A k \in 1..Len(exclude_terms[g]) :
            ~str_in(str_lower(exclude_terms[g][k]), item_text(r, field).v)

\* The condition of the list comprehension of filter_results for one record.
filter_keeps(r, exclude_terms, field) ==
    \A g \in 1..Len(exclude_terms) :
        \A k \in 1..Len(exclude_terms[g]) :
            ~str_in(str_lower(exclude_terms[g][k]), item_text(r, field).v)

\* The text of a record is extracted when a term is evaluated: only when
\* some exclusion group holds a term.
filter_evaluates_text(exclude_terms) ==
    \E g \in 1..Len(exclude_terms) : exclude_terms[g] # <<>>

\* A filter that leaves out the records whose text cannot be extracted.
filter_results_skipping(results, exclude_terms, field) ==
    IF exclude_terms = None \/ exclude_terms = Some(<<>>)
    THEN Ok(results)
    ELSE LET ex == exclude_terms.v
         IN  Ok(SelectSeq(results,
                    LAMBDA r : \/ ~filter_evaluates_text(ex)
                               \/ /\ ~item_text(r, field).raised
                                  /\ filter_keeps(r, ex, field)))

\* A filter that keeps no record.
filter_keeps_nothing(results, exclude_terms, field) == Ok(<<>>)

\* filter_results(results, exclude_terms, field): the kept records, or the
\* exception of the first record whose text cannot be extracted.
filter_results(results, exclude_terms, field) ==
    IF exclude_terms = None \/ exclude_terms = Some(<<>>)
    THEN Ok(results)
    ELSE LET ex == exclude_terms.v
             bad(i) == /\ filter_evaluates_text(ex)
                       /\ item_text(results[i], field).raised
         IN  IF \E i \in 1..Len(results) : bad(i)
             THEN item_text(results[CHOOSE i \in 1..Len(results) :
                                /\ bad(i)
                                /\ \A j \in 1..(i - 1) : ~bad(j)], field)
             ELSE Ok(SelectSeq(results,
                        LAMBDA r : \/ ~filter_evaluates_text(ex)
                                   \/ filter_keeps(r, ex, field)))

\* ------------------------------------------------------------ term groups

\* A term argument or a group element: a str, an iterable of elements, an
\* int (str() works, not iterable), an object whose __str__ raises.
TStr(s) == [t |-> "str", v |-> s]

TIter(q) == [t |-> "iter", v |-> q]

TInt(n) == [t |-> "int", v |-> n]

TNoString == [t |-> "NoString"]

\* str(term)
py_str(term) ==
    IF term.t = "str" THEN Ok(term.v)
    ELSE IF term.t = "int" THEN Ok(int_str(term.v))
    ELSE Raise(CantConvertToStringError("<class '" \o term.t \o "'>"))

\* The group of one term argument.
validate_term(kw, idx) ==
    IF kw.t = "str" THEN Ok(<<kw.v>>)
    ELSE IF kw.t = "iter"
    THEN LET each == [i \in 1..Len(kw.v) |-> py_str(kw.v[i])]
         IN  IF \E i \in 1..Len(each) : each[i].raised
             THEN each[CHOOSE i \in 1..Len(each) :
                         /\ each[i].raised
                         /\ \A j \in 1..(i - 1) : ~each[j].raised]
             ELSE Ok([i \in 1..Len(each) |-> each[i].v])
    ELSE Raise(Builtin("TypeError"))

\* A validation that drops the arguments it cannot compile.
_validate_search_terms_dropping(terms) ==
    LET each == [i \in 1..Len(terms) |-> validate_term(terms[i], i - 1)]
        good == SelectSeq(each, LAMBDA r : ~r.raised)
    IN  Ok([i \in 1..Len(good) |-> good[i].v])

\* _validate_search_terms(terms): the keywords, or the first failure.
_validate_search_terms(terms) ==
    LET each == [i \in 1..Len(terms) |-> validate_term(terms[i], i - 1)]
    IN  IF \E i \in 1..Len(each) : each[i].raised
        THEN each[CHOOSE i \in 1..Len(each) :
                    /\ each[i].raised
                    /\ \A j \in 1..(i - 1) : ~each[j].raised]
        ELSE Ok([i \in 1..Len(each) |-> each[i].v])

\* A rendering that joins the groups with +OR+ and their terms with +AND+.
render_query_swapped(keywords) ==
    str_join("+OR+", [i \in 1..Len(keywords) |->
                        "(" \o str_join("+AND+", keywords[i]) \o ")"])

\* "+AND+".join(f"({'+OR+'.join(kw)})" for kw in keywords)
render_query(keywords) ==
    str_join("+AND+", [i \in 1..Len(keywords) |->
                        "(" \o str_join("+OR+", keywords[i]) \o ")"])

\* construct_url(base_url, query, limit=limit, sort=sort)
construct_url(base_url, query, limit, sort) ==
    base_url \o ":" \o str_replace(query, " ", "+") \o "&limit="
    \o int_str(limit) \o (IF sort = None THEN "" ELSE "&sort=" \o sort.v)

\* ------------------------------------------------ the remote endpoint

\* A result record of the endpoint holding `text` as its narrative.
Record(text) ==
    JObj([mdr_text |-> JObj([text |-> JStr(text)]),
          device |-> JObj([brand_name |-> JStr("Pacemaker X")])])

\* A record whose narrative is a list of fragments.
RecordOfFragments(texts) ==
    JObj([mdr_text |-> JList([i \in 1..Len(texts) |->
                                JObj([text |-> JStr(texts[i])])]),
          device |-> JObj([brand_name |-> JStr("Pacemaker X")])])

\* The pages (data["results"]) the endpoint may answer with.
Pages ==
    { <<>>,
      <<Record("Artifact in MRI")>>,
      <<Record("MRI report"), Record("Artifact in MRI"),
        Record("Artifact with metal"), Record("Metal in MRI")>>,
      <<RecordOfFragments(<<"Shadow", "of a screw">>)>>,
      <<Record("MRI report"), Record("Artifact in MRI"),
        Record("Artifact with metal")>> }

\* The values of the Link header the endpoint may send.
LinkHeaders ==
    { None,
      Some("<https://api.fda.gov/next>; rel=\"next\""),
      Some("<ftp://api.fda.gov/next>; rel=\"next\"") }

\* The bodies an HTTP answer may carry: a JSON document, text that is not
\* JSON, and bytes that are not UTF-8.
BodyJSON(value) == [kind |-> "json", value |-> value]

BodyText == [kind |-> "text", v |-> "Not JSON data"]

BodyBytes == [kind |-> "bytes"]

\* json.loads(body.read().decode())
read_json(body) ==
    IF body.kind = "bytes" THEN Raise(Builtin("UnicodeDecodeError"))
    ELSE IF body.kind = "text"
    THEN Raise([type |-> "JSONDecodeError",
                message |-> "Expecting value: line 1 column 1 (char 0)"])
    ELSE Ok(body.value)

\* The error envelopes the endpoint may send with status 200.
ErrorEnvelopes ==
    { JObj([error |-> JObj([message |-> JStr("Invalid query parameter")])]),
      JObj([error |-> JObj([code |-> JStr("400")])]) }

\* The bodies of an HTTPError.
ErrorBodies ==
    { BodyJSON(JObj([error |->
                        JObj([message |-> JStr("Invalid query parameter")])])),
      BodyJSON(JObj([error |-> JObj([code |-> JStr("400")])])),
      BodyJSON(JObj([detail |-> JStr("no error member")])),
      BodyText,
      BodyBytes }

\* The headers of an HTTPError: None (an error raised without headers) or a
\* mapping that may hold X-RateLimit-Reset.
ErrorHeaders ==
    { None,
      Some("Content-Type" :> "application/json"),
      Some("X-RateLimit-Reset" :> "60"),
      Some("X-RateLimit-Reset" :> "0") }

HTTPErrorCodes == {429, 400, 500}

\* The reason of a URLError: a text or the OSError of the socket layer.
URLErrorReasons ==
    { [t |-> "str", v |-> "Connection refused"],
      [t |-> "OSError", errno |-> 111, strerror |-> "Connection refused"] }

\* str(e.reason)
reason_str(reason) ==
    IF reason.t = "str" THEN reason.v
    ELSE "[Errno " \o int_str(reason.errno) \o "] " \o reason.strerror

\* --------------------------------------------------- ingestion: values

\* A cell of a parsed file (dtype=str): a text or NaN.
Cell(s) == [nan |-> FALSE, v |-> s]

NaN == [nan |-> TRUE]

\* hashlib.sha256(...).hexdigest(): the digest of a text or of a file's
\* bytes, distinct inputs giving distinct digests.
sha256(data) == [sha256 |-> data]

\* A digest of the first cell only.
compute_row_hash_of_key(row) ==
    sha256(IF row[1].nan THEN "" ELSE row[1].v)

\* compute_row_hash(row): the digest of the cells joined by "|", a NaN
\* contributing the empty text.
compute_row_hash(row) ==
    sha256(str_join("|", [i \in 1..Len(row) |->
                            IF row[i].nan THEN "" ELSE row[i].v]))

\* A classification that looks for "device" first.
classify_file_device_first(filename) ==
    IF str_in("device", str_lower(filename)) THEN Some("device")
    ELSE IF str_in("foitext", str_lower(filename)) THEN Some("foitext")
    ELSE IF str_in("foidev", str_lower(filename)) THEN Some("foidev")
    ELSE None

\* A classification that takes a name without a marker for a device file.
classify_file_or_device(filename) ==
    IF str_in("foitext", str_lower(filename)) THEN Some("foitext")
    ELSE IF str_in("foidev", str_lower(filename)) THEN Some("foidev")
    ELSE Some("device")

\* classify_file(filename)
classify_file(filename) ==
    IF str_in("foitext", str_lower(filename)) THEN Some("foitext")
    ELSE IF str_in("foidev", str_lower(filename)) THEN Some("foidev")
    ELSE IF str_in("device", str_lower(filename)) THEN Some("device")
    ELSE None

\* compute_file_hash(file_path): the digest of the file's bytes.
compute_file_hash(content) == sha256(content)

\* Path.suffix: the text from the last "." of the name on.
suffix(name) ==
    IF positions_from(name, ".", 2) = {} THEN ""
    ELSE LET last == CHOOSE j \in positions_from(name, ".", 2) :
                        \A k \in positions_from(name, ".", 2) : k <= j
         IN  SubSeq(name, last, Len(name))

\* str.strip() of spaces.
str_strip(s) ==
    LET inked == {j \in 1..Len(s) : char_at(s, j) # " "}
    IN  IF inked = {} THEN ""
        ELSE SubSeq(s, least(inked),
                    CHOOSE j \in inked : \A k \in inked : k <= j)

\* The column name of the data frame for a header of the file (line 299-302).
normalize_column(col) ==
    str_replace(str_replace(str_strip(str_lower(col)), "-", "_"), ".", "_")

\* The order of characters in file names: their code points.
CodePoints ==
    "-.0123456789ABCDEFGHIJKLMNOPQRSTUVWXYZ_abcdefghijklmnopqrstuvwxyz"

\* a < b for texts, as Python compares str.
str_lt(a, b) ==
    \E i \in 1..Len(b) :
        /\ \A j \in 1..(i - 1) : j <= Len(a) /\ char_at(a, j) = char_at(b, j)
        /\ \/ i > Len(a)
           \/ i <= Len(a) /\ str_find(CodePoints, char_at(a, i))
                             < str_find(CodePoints, char_at(b, i))

\* The contents a file may have: a pipe-delimited table (inside an archive
\* for a .zip name), no bytes at all, an archive without members, bytes that
\* are not an archive.
TableFile(header, rows) ==
    [kind |-> "table", header |-> header, rows |-> rows]

EmptyFile == [kind |-> "empty"]

EmptyArchive == [kind |-> "no_members"]

NotAnArchive == [kind |-> "not_zip"]

\* pd.read_csv(..., sep="|", dtype=str): the frame, or EmptyDataError for
\* a file without columns.
read_csv(content) ==
    IF content.kind = "table"
    THEN Ok([header |-> content.header, rows |-> content.rows])
    ELSE Raise(Builtin("EmptyDataError"))

\* ------------------------------------------------- fetch_results: state

VARIABLES
    terms,          \* fetch_results(*terms, ...)
    exclude_terms,  \* None or Some(sequence of term groups)
    search_fields,  \* the list of search fields (a single str is promoted)
    max_pages,      \* 0: no page cap
    limit,          \* the result cap
    pc,             \* "call", "for", "while", "returned", "raised"
    keywords,       \* the validated term groups
    results,        \* the accumulated, filtered records
    pages,          \* the pages received so far, over all search fields
    sf,             \* the index of the current search field
    url,            \* the next request target: None or Some(text)
    data_results,   \* data["results"] of the last page received
    link_header,    \* the Link header of that page: None or Some(text)
    response,       \* what urlopen answered the last request with
    fr,             \* the outcome of filter_results on that page
    exc,            \* the exception fetch_results raised, or NoExc
    requests        \* the requests issued: the field, len(results) and
                    \* pages when each was sent

args == <<terms, exclude_terms, search_fields, max_pages, limit>>

fetch_vars == <<terms, exclude_terms, search_fields, max_pages, limit, pc,
                keywords, results, pages, sf, url, data_results, link_header,
                response, fr, exc, requests>>

\* -------------------------------------------------- build_database: state

VARIABLES
    impl,            \* the module run: "maudecli.db" or "data.build"
    disk,            \* file name -> the content of the data file
    conn,            \* "closed" or "open"
    schema,          \* the tables of the store
    columns,         \* table -> its column names
    tables,          \* table -> its rows, in insertion order
    log,             \* ingestion_log: file name -> None or Some(entry)
    bpc,             \* "off", "idle", "downloading", "loop", "log"
    queue,           \* the files of sorted(data_files) still to handle
    pending,         \* file_name, file_hash, record_type, rows_added of
                     \* the file ingested and not yet logged
    total_rows,
    files_processed,
    files_skipped,
    files_errored,
    run_exc,         \* the exception the last build_database raised
    runs,            \* the runs finished
    edits,           \* the file changes made
    edited,          \* a file changed since the last run started
    snapshot,        \* tables and log when the current run started
    rerun,           \* the current run is a re-run on an unchanged file set
    handled,         \* file name -> how this run handled it
    reads,           \* the files this run has opened for parsing
    alter,           \* the last call of add_columns_if_needed: its
                     \* arguments, the columns before it and its outcome
    datafile_urls,   \* DATAFILE_URLS, by the file names they end with
    failed_downloads, \* the files of datafile_urls whose download failed
    in_flight,       \* the files of datafile_urls being downloaded
    interrupted      \* the log entry an interrupted run did not write

downloads == <<datafile_urls, failed_downloads, in_flight>>

counters == <<total_rows, files_processed, files_skipped, files_errored>>

store == <<schema, columns, tables, log>>

build_vars == <<impl, disk, conn, schema, columns, tables, log, bpc, queue,
                pending, total_rows, files_processed, files_skipped,
                files_errored, run_exc, runs, edits, edited, snapshot, rerun,
                handled, reads, alter, datafile_urls, failed_downloads,
                in_flight, interrupted>>

\* The state of a query of the local store (query_local_database).
VARIABLES
    db_exists,        \* DB_PATH.exists()
    search_terms,     \* the argument search_terms
    q_exclude_terms,  \* the argument exclude_terms
    search_field,     \* the argument search_field
    q_limit,          \* the argument limit
    local_rows,       \* the rows of the tables of the store queried
    qpc,              \* position in query_local_database
    q_tables,         \* the local `tables`, the candidate tables
    q_next,           \* index in q_tables of the table the loop handles next
    q_results,        \* the local `results`
    q_conn,           \* the connection: "none", "open" or "closed"
    q_exc,            \* the exception caught by `except Exception`
    q_seen            \* the rows fetched so far, each with the decision taken

query_vars == <<db_exists, local_rows, search_terms, q_exclude_terms, search_field,
                q_limit, qpc, q_tables, q_next, q_results, q_conn, q_exc,
                q_seen>>

vars == <<fetch_vars, build_vars, query_vars>>

base_endpoint == "https://api.fda.gov/device/event.json"

sort == None

TermArgs ==
    { <<TStr("mri"), TIter(<<TStr("stapes"), TStr("tympanostomy")>>)>>,
      <<TStr("mri"), TInt(5)>>,
      <<TIter(<<TInt(7), TStr("mri")>>)>>,
      <<TIter(<<TStr("mri"), TNoString>>)>> }

ExcludeArgs ==
    { None,
      Some(<<>>),
      Some(<< <<"artifact">> >>),
      Some(<< <<"artifact">>, <<"metal">> >>),
      Some(<< <<"artifact", "shadow">>, <<"METAL", "screw">> >>) }

SearchFieldArgs ==
    { <<"mdr_text.text">>, <<"mdr_text.text", "device.brand_name">>,
      <<"invalid.field">> }

MaxPagesArgs == {0, 1, 2}

LimitArgs == {1, 5}

\* ------------------------------------------------- build_database: files

RecordTypes == {"device", "foitext", "foidev"}

StoreTables == RecordTypes \cup {"ingestion_log"}

DeviceHeader == <<"MDR_REPORT_KEY", "Brand-Name">>

\* The versions of device2000.zip: two that share the row of report 102,
\* one that repeats a row, one that is not an archive.
DeviceFiles ==
    { TableFile(DeviceHeader, << <<Cell("101"), Cell("Magnetom")>>,
                                 <<Cell("102"), NaN>> >>),
      TableFile(DeviceHeader, << <<Cell("102"), NaN>>,
                                 <<Cell("103"), Cell("Signa")>> >>),
      TableFile(DeviceHeader, << <<Cell("103"), Cell("Signa")>>,
                                 <<Cell("103"), Cell("Signa")>> >>),
      NotAnArchive }

FoidevFiles ==
    { TableFile(<<"MDR_REPORT_KEY">>, << <<Cell("201")>> >>),
      EmptyFile }

FoitextFiles ==
    { TableFile(<<"MDR_REPORT_KEY", "FOI_TEXT">>,
                << <<Cell("101"), Cell("Artifact in MRI")>> >>),
      EmptyArchive }

OtherFiles == { TableFile(<<"KEY">>, << <<Cell("1")>> >>) }

\* A narrative file whose name holds two markers, in mixed case.
MixedNameFiles ==
    { TableFile(<<"MDR_REPORT_KEY", "FOI_TEXT">>,
                << <<Cell("102"), Cell("Metal in MRI")>>,
                   <<Cell("102"), NaN>> >>) }

\* The versions each file of the data directory may have.
FileVersions ==
    ("device2000.zip" :> DeviceFiles) @@ ("foidev1998.txt" :> FoidevFiles)
    @@ ("foitext1996.zip" :> FoitextFiles) @@ ("mdrfoi.txt" :> OtherFiles)
    @@ ("Device_FOITEXT.zip" :> MixedNameFiles)

FileNames == DOMAIN FileVersions

versions(name) == FileVersions[name]

\* The names of DATAFILE_URLS among FileNames (url.split("/")[-1]).
DATAFILE_NAMES == {"device2000.zip", "foitext1996.zip"}

\* -------------------------------------------------------- initial states

FetchInit ==
    /\ terms \in TermArgs
    /\ exclude_terms \in ExcludeArgs
    /\ search_fields \in SearchFieldArgs
    /\ max_pages \in MaxPagesArgs
    /\ limit \in LimitArgs
    /\ pc = "call"

\* No fetch_results call is made.
FetchOff ==
    /\ terms = <<>>
    /\ exclude_terms = None
    /\ search_fields = <<"mdr_text.text">>
    /\ max_pages = 0
    /\ limit = 1
    /\ pc = "off"

BuildInit ==
    /\ impl \in {"maudecli.db", "data.build"}
    /\ datafile_urls \in IF impl = "maudecli.db"
                         THEN {{}, DATAFILE_NAMES} ELSE {{}}
    /\ disk \in [FileNames -> UNION {versions(n) : n \in FileNames}]
    /\ \A n \in FileNames : disk[n] \in versions(n)
    /\ bpc = "idle"

\* No build_database run is made.
BuildOff ==
    /\ impl = "maudecli.db"
    /\ datafile_urls = {}
    /\ disk = [n \in FileNames |-> EmptyFile]
    /\ bpc = "off"

\* ------------------------------------------------ the local store queried

\* The columns of the tables of the store that is queried.
LocalColumns ==
    [foitext |-> {"row_hash", "mdr_report_key", "foi_text"},
     device |-> {"row_hash", "brand_name", "generic_name"},
     foidev |-> {"row_hash", "brand_name", "generic_name"}]

\* The rows of the tables of the store that is queried.
LocalRows ==
    [foitext |->
        <<[row_hash |-> "hash1", mdr_report_key |-> "R001",
           foi_text |-> "MRI scan revealed artifact"],
          [row_hash |-> "hash2", mdr_report_key |-> "R002",
           foi_text |-> "Patient received pacemaker"],
          [row_hash |-> "hash3", mdr_report_key |-> "R003",
           foi_text |-> "MRI compatible pacemaker installed"],
          [row_hash |-> "hash4", mdr_report_key |-> "R004",
           foi_text |-> "Device malfunction during procedure"]>>,
     device |->
        <<[row_hash |-> "hash5", brand_name |-> "Brand A MRI Scanner",
           generic_name |-> "MRI Device"],
          [row_hash |-> "hash6", brand_name |-> "Brand B Pacemaker",
           generic_name |-> "Cardiac Pacemaker"]>>,
     foidev |-> <<>>]

\* The errors a statement on the store may raise.
SqliteErrors ==
    { [type |-> "OperationalError", message |-> "database is locked"],
      [type |-> "DatabaseError", message |-> "file is not a database"] }

\* The contents the store may have: the test's, and one whose foidev table
\* holds a device too.
LocalStores ==
    { LocalRows,
      [LocalRows EXCEPT !.foidev =
          <<[row_hash |-> "hash7", brand_name |-> "Brand C MRI Coil",
             generic_name |-> "MRI Coil"]>>] }

SearchTermArgs ==
    { <<>>,
      << <<"MRI">> >>,
      << <<"mri">>, <<"pacemaker">> >>,
      << <<"device", "MRI", "pacemaker">> >> }

LocalExcludeArgs ==
    { None,
      Some(<<>>),
      Some(<< <<"artifact">> >>),
      Some(<< <<"artifact">>, <<"malfunction">> >>),
      Some(<< <<"Artifact", "pacemaker">>, <<"MRI">> >>) }

LocalFieldArgs ==
    {"foi_text", "brand_name", "mdr_report_key", "nonexistent_field"}

LocalLimitArgs == {None, Some(1), Some(2)}

\* The tables chosen for a search field.
candidate_tables(field) ==
    IF field \in {"foi_text", "mdr_text_key", "text_type_code"}
    THEN <<"foitext">>
    ELSE IF field \in {"brand_name", "generic_name", "manufacturer_d_name",
                       "model_number", "device_report_product_code"}
    THEN <<"device", "foidev">>
    ELSE <<"device", "foitext", "foidev">>

\* `field LIKE ?` with the parameter %term%.
like(value, term) == str_in(str_lower(term), str_lower(value))

\* A clause that asks for a term of some group only.
where_sql_some_group(row, groups, field) ==
    \/ groups = <<>>
    \/ \E g \in 1..Len(groups) :
            \E k \in 1..Len(groups[g]) : like(row[field], groups[g][k])

\* The WHERE clause: every group that holds a term has a term matching.
where_sql(row, groups, field) ==
    \A g \in 1..Len(groups) :
        groups[g] # <<>>
        => \E k \in 1..Len(groups[g]) : like(row[field], groups[g][k])

\* SELECT * FROM table WHERE where_sql [LIMIT limit], as fetchall() gives it.
select_rows(t, groups, field, lim) ==
    LET found == SelectSeq(local_rows[t],
                           LAMBDA row : where_sql(row, groups, field))
    IN  IF lim # None /\ lim.v # 0 /\ lim.v < Len(found)
        THEN SubSeq(found, 1, lim.v)
        ELSE found

\* should_exclude after the loop over the exclusion groups: every group has
\* a term in the lowered value of the field.
should_exclude(result_dict, groups, field) ==
    \A g \in 1..Len(groups) :
        \E k \in 1..Len(groups[g]) :
            str_in(str_lower(groups[g][k]), str_lower(result_dict[field]))

\* The row is appended to the results: exclude_terms is falsy or the row is
\* not excluded.
local_keeps(result_dict, excl, field) ==
    \/ excl = None
    \/ excl = Some(<<>>)
    \/ ~should_exclude(result_dict, excl.v, field)

\* result_dict["_source"] = "local_db:<table>"
with_source(result_dict, t) ==
    result_dict @@ ("_source" :> ("local_db:" \o t))

\* The rows of one table that reach the results.
kept_rows(t, groups, excl, field, lim) ==
    LET rows == select_rows(t, groups, field, lim)
        kept == SelectSeq(rows, LAMBDA row : local_keeps(row, excl, field))
    IN  [i \in 1..Len(kept) |-> with_source(kept[i], t)]

\* The rows of one table with the decision taken for each.
seen_rows(t, groups, excl, field, lim) ==
    LET rows == select_rows(t, groups, field, lim)
    IN  [i \in 1..Len(rows) |->
            [row |-> rows[i], kept |-> local_keeps(rows[i], excl, field)]]

QueryInit ==
    /\ db_exists \in BOOLEAN
    /\ local_rows \in LocalStores
    /\ search_terms \in SearchTermArgs
    /\ q_exclude_terms \in LocalExcludeArgs
    /\ search_field \in LocalFieldArgs
    /\ q_limit \in LocalLimitArgs
    /\ qpc = "call"

QueryOff ==
    /\ db_exists = FALSE
    /\ local_rows = LocalRows
    /\ search_terms = <<>>
    /\ q_exclude_terms = None
    /\ search_field = "foi_text"
    /\ q_limit = None
    /\ qpc = "off"

\* The command run is a search (fetch_results), a build (build_database) or a
\* query of the local store (query_local_database).
Init ==
    /\ \/ FetchInit /\ BuildOff /\ QueryOff
       \/ FetchOff /\ BuildInit /\ QueryOff
       \/ FetchOff /\ BuildOff /\ QueryInit
    /\ q_tables = <<>>
    /\ q_next = 1
    /\ q_results = <<>>
    /\ q_conn = "none"
    /\ q_exc = NoExc
    /\ q_seen = <<>>
    /\ keywords = <<>>
    /\ results = <<>>
    /\ pages = 0
    /\ sf = 1
    /\ url = None
    /\ data_results = <<>>
    /\ link_header = None
    /\ response = [kind |-> "none"]
    /\ fr = Ok(<<>>)
    /\ exc = NoExc
    /\ requests = <<>>
    /\ conn = "closed"
    /\ schema = {}
    /\ columns = [t \in RecordTypes |-> {}]
    /\ tables = [t \in RecordTypes |-> <<>>]
    /\ log = [n \in FileNames |-> None]
    /\ queue = <<>>
    /\ pending = None
    /\ total_rows = 0
    /\ files_processed = 0
    /\ files_skipped = 0
    /\ files_errored = 0
    /\ run_exc = NoExc
    /\ runs = 0
    /\ edits = 0
    /\ edited = FALSE
    /\ snapshot = [tables |-> tables, log |-> log]
    /\ rerun = FALSE
    /\ handled = [n \in FileNames |-> "no"]
    /\ reads = {}
    /\ failed_downloads = {}
    /\ in_flight = {}
    /\ interrupted = None
    /\ alter = None

\* ----------------------------------------------- fetch_results: actions

\* A handler that goes back to the paging loop after a failure.
retries_after(e) ==
    /\ pc' = "while"
    /\ exc' = e

\* An exception leaves fetch_results.
Raises(e) ==
    /\ pc' = "raised"
    /\ exc' = e

\* A stop test that lets one more page through at each cap.
stop_paging_late(n_results, n_pages) ==
    n_results > limit \/ (max_pages # 0 /\ n_pages > max_pages)

\* The stop test after a page: the result cap or the page cap is reached.
stop_paging(n_results, n_pages) ==
    n_results >= limit \/ (max_pages # 0 /\ n_pages >= max_pages)

\* The continuation target of a Link header.
next_url(header) ==
    IF header # None /\ header.v # ""
    THEN Some(str_slice(header.v, str_find(header.v, "<") + 1,
                        str_find(header.v, ">")))
    ELSE None

\* `while url:` holds for a non-empty target.
url_truthy == url # None /\ url.v # ""

\* A check that lets every target through.
url_allowed_always == TRUE

url_allowed ==
    str_startswith(url.v, "http:") \/ str_startswith(url.v, "https:")

\* The guard of a request: the loop is entered with an allowed target.
can_request ==
    /\ pc = "while"
    /\ url_truthy
    /\ url_allowed
    /\ Len(requests) < MaxRequests

sent == Append(requests, [sf |-> sf, n |-> Len(results), pages |-> pages])

\* What the except clauses for HTTPError raise.
http_error_exc(code, headers, body) ==
    IF code = 429
    THEN IF headers = None THEN Builtin("AttributeError")
         ELSE LET reset == IF "X-RateLimit-Reset" \in DOMAIN headers.v
                           THEN Some(headers.v["X-RateLimit-Reset"])
                           ELSE None
              IN  APIRateLimitError(
                      IF reset # None /\ reset.v # ""
                      THEN Some(str_int(reset.v)) ELSE None)
    ELSE LET error_data == read_json(body)
         IN  IF error_data.raised THEN Builtin("TypeError")
             ELSE IF error_data.v.t # "obj" THEN Builtin("TypeError")
             ELSE IF "error" \notin DOMAIN error_data.v.v
             THEN APIResponseError(code, "Unknown error")
             ELSE IF error_data.v.v["error"].t # "obj"
             THEN Builtin("TypeError")
             ELSE IF "message" \notin DOMAIN error_data.v.v["error"].v
             THEN APIResponseError(code, "Unknown error")
             ELSE APIResponseError(code,
                                   error_data.v.v["error"].v["message"].v)

\* fetch_results is called: the terms are validated.
FetchCall ==
    /\ pc = "call"
    /\ LET kw == _validate_search_terms(terms)
       IN  IF kw.raised
           THEN /\ Raises(kw.exc)
                /\ UNCHANGED keywords
           ELSE /\ keywords' = kw.v
                /\ pc' = "for"
                /\ exc' = NoExc
    /\ results' = <<>>
    /\ pages' = 0
    /\ sf' = 1
    /\ UNCHANGED <<build_vars, query_vars>>
    /\ UNCHANGED <<args, url, data_results, link_header, response,
                   fr, requests>>

\* The for loop takes the next search field and builds its first target.
NextField ==
    /\ pc = "for"
    /\ sf <= Len(search_fields)
    /\ url' = Some(construct_url(
                    base_endpoint \o "?search=" \o search_fields[sf],
                    render_query(keywords), limit, sort))
    /\ pc' = "while"
    /\ UNCHANGED <<build_vars, query_vars>>
    /\ UNCHANGED <<args, keywords, results, pages, sf, data_results,
                   link_header, response, fr, exc,
                   requests>>

\* The for loop is exhausted: fetch_results returns results.
Return ==
    /\ pc = "for"
    /\ sf > Len(search_fields)
    /\ pc' = "returned"
    /\ UNCHANGED <<build_vars, query_vars>>
    /\ UNCHANGED <<args, keywords, results, pages, sf, url, data_results,
                   link_header, response, fr, exc,
                   requests>>

\* `while url:` fails: the else clause runs and the field is finished.
WhileEnd ==
    /\ pc = "while"
    /\ ~url_truthy
    /\ sf' = sf + 1
    /\ pc' = "for"
    /\ UNCHANGED <<build_vars, query_vars>>
    /\ UNCHANGED <<args, keywords, results, pages, url, data_results,
                   link_header, response, fr, exc,
                   requests>>

\* The target does not start with http: or https: : ValueError, no request.
RejectUrl ==
    /\ pc = "while"
    /\ url_truthy
    /\ ~url_allowed
    /\ Raises(Builtin("ValueError"))
    /\ UNCHANGED <<build_vars, query_vars>>
    /\ UNCHANGED <<args, keywords, results, pages, sf, url, data_results,
                   link_header, response,
                   fr, requests>>

\* A request answered with a page of results and a Link header: data is
\* read (lines 125-128).
RequestPage ==
    /\ can_request
    /\ \E page \in Pages, header \in LinkHeaders :
        /\ data_results' = page
        /\ link_header' = header
    /\ response' = [kind |-> "page", status |-> 200]
    /\ requests' = sent
    /\ pc' = "page"
    /\ UNCHANGED <<build_vars, query_vars>>
    /\ UNCHANGED <<args, keywords, results, pages, sf, url, fr, exc>>

\* The page is filtered and accumulated, and the loop stops or follows the
\* Link header (lines 136-161).
ProcessPage ==
    /\ pc = "page"
    /\ fr' = filter_results(data_results, exclude_terms, search_fields[sf])
    /\ IF fr'.raised
       THEN /\ Raises(fr'.exc)
            /\ UNCHANGED <<results, pages, sf, url>>
       ELSE /\ results' = IF fr'.v # <<>> THEN results \o fr'.v ELSE results
            /\ pages' = pages + 1
            /\ exc' = NoExc
            /\ IF stop_paging(Len(results'), pages')
               THEN /\ sf' = sf + 1
                    /\ pc' = "for"
                    /\ UNCHANGED url
               ELSE /\ url' = next_url(link_header)
                    /\ pc' = "while"
                    /\ UNCHANGED sf
    /\ UNCHANGED <<build_vars, query_vars>>
    /\ UNCHANGED <<args, keywords, data_results, link_header, response,
                   requests>>

\* A request answered with status 200 and an error envelope (lines 130-134).
RequestErrorEnvelope ==
    /\ can_request
    /\ \E data \in ErrorEnvelopes :
        /\ response' = [kind |-> "envelope", status |-> 200, data |-> data]
        /\ Raises(APIResponseError(200,
                IF "message" \in DOMAIN data.v["error"].v
                THEN data.v["error"].v["message"].v
                ELSE "Unknown API error"))
    /\ requests' = sent
    /\ UNCHANGED <<build_vars, query_vars>>
    /\ UNCHANGED <<args, keywords, results, pages, sf, url, data_results,
                   link_header, fr>>

\* What a body that json.loads(response.read().decode()) cannot read
\* raises (lines 128, 182-188).
bad_body_exc(body) ==
    IF read_json(body).exc.type = "JSONDecodeError"
    THEN APIResponseError(200, "Invalid JSON response: "
                               \o read_json(body).exc.message)
    ELSE read_json(body).exc

\* A request answered with status 200 and a body that cannot be read.
RequestBadBody ==
    /\ can_request
    /\ \E body \in {BodyText, BodyBytes} :
        /\ response' = [kind |-> "body", status |-> 200, body |-> body]
        /\ Raises(bad_body_exc(body))
    /\ requests' = sent
    /\ UNCHANGED <<build_vars, query_vars>>
    /\ UNCHANGED <<args, keywords, results, pages, sf, url, data_results,
                   link_header, fr>>

\* urlopen raises HTTPError.
RequestHTTPError ==
    /\ can_request
    /\ \E code \in HTTPErrorCodes, headers \in ErrorHeaders,
          body \in ErrorBodies :
        /\ response' = [kind |-> "HTTPError", code |-> code,
                        headers |-> headers, body |-> body]
        /\ Raises(http_error_exc(code, headers, body))
    /\ requests' = sent
    /\ UNCHANGED <<build_vars, query_vars>>
    /\ UNCHANGED <<args, keywords, results, pages, sf, url, data_results,
                   link_header, fr>>

\* A handler that reports a transport failure as a response error.
url_error_as_response(reason) == APIResponseError(200, reason_str(reason))

\* What the except clause for URLError raises (lines 179-180).
url_error_exc(reason) == APIConnectionError(reason_str(reason))

\* urlopen raises URLError: the transport failed.
RequestURLError ==
    /\ can_request
    /\ \E reason \in URLErrorReasons :
        /\ response' = [kind |-> "URLError", reason |-> reason]
        /\ Raises(url_error_exc(reason))
    /\ requests' = sent
    /\ UNCHANGED <<build_vars, query_vars>>
    /\ UNCHANGED <<args, keywords, results, pages, sf, url, data_results,
                   link_header, fr>>

\* ----------------------------------------------- build_database: steps

\* A lookup that finds no file in the log.
never_ingested(file_name, file_hash) == FALSE

\* A lookup by file name alone.
ingested_by_name(file_name, file_hash) == log[file_name] # None

\* is_file_ingested(conn, file_name, file_hash)
is_file_ingested(file_name, file_hash) ==
    IF log[file_name] = None THEN FALSE
    ELSE log[file_name].v.file_hash = file_hash

\* The columns of `cols` the loop tries to add: those that PRAGMA table_info
\* did not list and that are not row_hash, by their position.
to_add(table_name, cols) ==
    { j \in 1..Len(cols) : /\ cols[j] \notin columns[table_name]
                           /\ cols[j] # "row_hash" }

\* safe_col = col.replace("-", "_").replace(".", "_")
safe_col(col) == str_replace(str_replace(col, "-", "_"), ".", "_")

\* An add of columns that lets the first failing ALTER TABLE through: the
\* columns after it are not added.
add_columns_or_raise(table_name, cols, raced) ==
    LET failing == { j \in to_add(table_name, cols) :
                        safe_col(cols[j]) \in raced }
    IN  IF failing = {}
        THEN [raised |-> FALSE, skipped |-> {},
              columns |-> columns[table_name]
                  \cup { safe_col(cols[j]) : j \in to_add(table_name, cols) }]
        ELSE [raised |-> TRUE, exc |-> Builtin("OperationalError"),
              skipped |-> {},
              columns |-> columns[table_name] \cup raced
                  \cup { safe_col(cols[j]) :
                           j \in { k \in to_add(table_name, cols) :
                                     k < least(failing) } }]

\* add_columns_if_needed(conn, table_name, columns): every column not listed
\* is added under its sanitized name. `raced` are the columns another writer
\* added after the PRAGMA: their ALTER TABLE fails (duplicate column name),
\* the OperationalError is logged and the loop goes on.
add_columns_if_needed(table_name, cols, raced) ==
    [raised |-> FALSE,
     skipped |-> { safe_col(cols[j]) : j \in to_add(table_name, cols) }
                 \cap raced,
     columns |-> columns[table_name] \cup raced
                 \cup { safe_col(cols[j]) : j \in to_add(table_name, cols) }]

\* The row hashes of a sequence of stored rows.
row_hashes(rows) == {rows[i].row_hash : i \in 1..Len(rows)}

\* df_new.to_sql(record_type, conn, if_exists="append"): one transaction
\* appending the rows; row_hash is the PRIMARY KEY of the table.
to_sql(table, df_new) ==
    IF Cardinality(row_hashes(table \o df_new)) = Len(table) + Len(df_new)
    THEN Ok(table \o df_new)
    ELSE Raise(Builtin("IntegrityError"))

\* The data frame of a parsed file with its columns renamed and its
\* row_hash column computed (lines 298-308).
hashed_frame(df) ==
    [i \in 1..Len(df.rows) |->
        [row_hash |-> compute_row_hash(df.rows[i]),
         header |-> [j \in 1..Len(df.header) |->
                        normalize_column(df.header[j])],
         cells |-> df.rows[i]]]

\* An append of every row of the frame, present in the table or not.
append_all_rows(record_type, df) ==
    IF to_sql(tables[record_type], hashed_frame(df)).raised
    THEN to_sql(tables[record_type], hashed_frame(df))
    ELSE Ok([rows_added |-> Len(df.rows),
             table |-> to_sql(tables[record_type], hashed_frame(df)).v])

\* Lines 310-334 of ingest_file: the rows not yet in the table are
\* appended.
append_new_rows(record_type, df) ==
    LET df_new == SelectSeq(hashed_frame(df),
                    LAMBDA r : r.row_hash
                               \notin row_hashes(tables[record_type]))
    IN  IF df_new = <<>>
        THEN Ok([rows_added |-> 0, table |-> tables[record_type]])
        ELSE IF to_sql(tables[record_type], df_new).raised
        THEN to_sql(tables[record_type], df_new)
        ELSE Ok([rows_added |-> Len(df_new),
                 table |-> to_sql(tables[record_type], df_new).v])

\* What ingest_file reads from the file: the frame, the exception it lets
\* through, or the failure it logs before returning 0 (lines 253-296).
read_file(file_name, content) ==
    IF str_lower(suffix(file_name)) = ".zip" /\ content.kind = "not_zip"
    THEN Raise(Builtin("BadZipFile"))
    ELSE IF str_lower(suffix(file_name)) = ".zip"
            /\ content.kind = "no_members"
    THEN Ok([returns |-> "empty zip"])
    ELSE IF read_csv(content).raised
    THEN Ok([returns |-> "error reading"])
    ELSE IF read_csv(content).v.rows = <<>>
    THEN Ok([returns |-> "no data"])
    ELSE Ok([returns |-> "frame", df |-> read_csv(content).v])

\* The outcome of ingest_file: the exception raised or the rows added,
\* with the table and its columns as the call leaves them.
IngestRaised(e, table, cols) ==
    [raised |-> TRUE, exc |-> e, rows_added |-> 0, table |-> table,
     columns |-> cols, returns |-> e.type]

IngestReturned(rows_added, table, cols, returns) ==
    [raised |-> FALSE, exc |-> NoExc, rows_added |-> rows_added,
     table |-> table, columns |-> cols, returns |-> returns]

\* ingest_file(conn, file_path, record_type)
\* The normalized column names of a frame (lines 298-302).
frame_columns(df) ==
    [j \in 1..Len(df.header) |-> normalize_column(df.header[j])]

ingest_file(file_name, content, record_type, raced) ==
    LET read == read_file(file_name, content)
    IN  IF read.raised
        THEN IngestRaised(read.exc, tables[record_type], columns[record_type])
        ELSE IF read.v.returns # "frame"
        THEN IngestReturned(0, tables[record_type], columns[record_type],
                            read.v.returns)
        ELSE LET df == read.v.df
                 add == add_columns_if_needed(record_type, frame_columns(df),
                                              raced)
                 appended == append_new_rows(record_type, df)
             IN  IF add.raised
                 THEN IngestRaised(add.exc, tables[record_type], add.columns)
                 ELSE IF appended.raised
                 THEN IngestRaised(appended.exc, tables[record_type],
                                   add.columns)
                 ELSE IngestReturned(appended.v.rows_added, appended.v.table,
                                     add.columns, "rows")

\* ingest_file of the file reaches add_columns_if_needed: the file parses
\* to a frame with rows.
has_frame(file_name) ==
    /\ ~read_file(file_name, disk[file_name]).raised
    /\ read_file(file_name, disk[file_name]).v.returns = "frame"

\* The call add_columns_if_needed(conn, record_type, df.columns.tolist())
\* made for the file (line 305), its arguments and its outcome.
add_columns_call(file_name, raced) ==
    LET cols == frame_columns(read_file(file_name, disk[file_name]).v.df)
        table_name == classify_file(file_name).v
    IN  [table_name |-> table_name,
         cols |-> cols,
         before |-> columns[table_name],
         raced |-> raced,
         out |-> add_columns_if_needed(table_name, cols, raced)]

\* The schema changes that may race with the ingestion of a file: none, or
\* one of the columns the file brings.
race_choices(file_name) ==
    IF classify_file(file_name) = None \/ ~has_frame(file_name)
    THEN {{}}
    ELSE LET cols == frame_columns(
                        read_file(file_name, disk[file_name]).v.df)
         IN  {{}} \cup {{safe_col(cols[j])} :
                          j \in to_add(classify_file(file_name).v, cols)}

\* create_tables(conn) of maudecli.db formats its CREATE INDEX statement
\* with the names table and field, which nothing defines: NameError, after
\* the four CREATE TABLE statements (lines 118-152).  data.build has no
\* such statement.
create_tables_exc ==
    IF impl = "maudecli.db" THEN Builtin("NameError") ELSE NoExc

\* The files build_database works on: the downloads that succeeded
\* (maudecli.db), or the *.zip, *.csv and *.txt files of the data
\* directory but the readme and the build script (data.build).
data_files ==
    IF impl = "maudecli.db" THEN datafile_urls \ failed_downloads
    ELSE { n \in FileNames :
             /\ str_lower(suffix(n)) \in {".zip", ".csv", ".txt"}
             /\ ~str_in("readme", str_lower(n))
             /\ n # "build.py" }

\* sorted(files)
RECURSIVE sorted(_)
sorted(files) ==
    IF files = {} THEN <<>>
    ELSE LET first == CHOOSE n \in files :
                          \A m \in files \ {n} : str_lt(n, m)
         IN  <<first>> \o sorted(files \ {first})

\* build_database ends: the finally clause closes the connection.
EndRun(e) ==
    /\ conn' = "closed"
    /\ run_exc' = e
    /\ runs' = runs + 1
    /\ bpc' = "idle"

\* build_database is called: the connection is opened, the tables are
\* created and the counters are set for the loop over the sorted files.
\* build_database of maudecli.db up to the gather (lines 385-394): the
\* store is opened and one download per URL is started.
DownloadFiles ==
    /\ bpc = "idle"
    /\ impl = "maudecli.db"
    /\ runs < MaxRuns
    /\ conn' = "open"
    /\ in_flight' = datafile_urls
    /\ failed_downloads' = {}
    /\ bpc' = "downloading"
    /\ UNCHANGED <<fetch_vars, query_vars, interrupted, datafile_urls, alter, impl, disk,
                   store, queue, pending, counters, run_exc, runs, edits, edited,
                   snapshot, rerun, handled, reads>>

\* One download ends, in any order: its file is there, or its exception is
\* kept by gather(return_exceptions=True) and the file is counted as failed.
DownloadEnds ==
    /\ bpc = "downloading"
    /\ \E file_name \in in_flight, failed \in BOOLEAN :
        /\ in_flight' = in_flight \ {file_name}
        /\ failed_downloads' = IF failed
                               THEN failed_downloads \cup {file_name}
                               ELSE failed_downloads
    /\ UNCHANGED <<fetch_vars, query_vars, interrupted, datafile_urls, alter, impl, disk,
                   conn, store, bpc, queue, pending, counters, run_exc, runs,
                   edits, edited, snapshot, rerun, handled, reads>>

\* A build that goes on without awaiting the downloads.
downloads_never_awaited == TRUE

\* `await asyncio.gather(...)` has returned: no download is running.
downloads_complete == in_flight = {}

StartBuild ==
    /\ bpc = (IF impl = "maudecli.db" THEN "downloading" ELSE "idle")
    /\ downloads_complete
    /\ runs < MaxRuns
    /\ schema' = StoreTables
    /\ columns' = [t \in RecordTypes |->
                     IF t \in schema THEN columns[t] ELSE {"row_hash"}]
    /\ IF create_tables_exc # NoExc
       THEN /\ EndRun(create_tables_exc)
            /\ UNCHANGED <<queue, counters>>
       ELSE /\ conn' = "open"
            /\ queue' = sorted(data_files)
            /\ total_rows' = 0
            /\ files_processed' = 0
            /\ files_skipped' = 0
            /\ files_errored' = 0
            /\ run_exc' = NoExc
            /\ bpc' = "loop"
            /\ UNCHANGED runs
    /\ snapshot' = [tables |-> tables, log |-> log]
    /\ rerun' = (runs > 0 /\ ~edited)
    /\ edited' = FALSE
    /\ handled' = [n \in FileNames |-> "no"]
    /\ reads' = {}
    /\ UNCHANGED <<fetch_vars, query_vars, interrupted, downloads, alter, impl, disk, tables, log, pending, edits>>

\* One file of the loop up to its ingestion (lines 431-453): it is
\* classified, hashed, looked up in the log, and ingested.
HandleFile ==
    /\ bpc = "loop"
    /\ queue # <<>>
    /\ \E raced \in race_choices(Head(queue)) :
       LET file_name == Head(queue)
           record_type == classify_file(file_name)
           file_hash == compute_file_hash(disk[file_name])
           out == ingest_file(file_name, disk[file_name], record_type.v,
                              raced)
       IN  IF record_type = None
           THEN /\ files_skipped' = files_skipped + 1
                /\ queue' = Tail(queue)
                /\ handled' = [handled EXCEPT ![file_name] = "unclassified"]
                /\ UNCHANGED <<conn, columns, tables, bpc, pending,
                               files_errored, run_exc, runs, reads, alter>>
           ELSE IF is_file_ingested(file_name, file_hash)
           THEN /\ files_skipped' = files_skipped + 1
                /\ queue' = Tail(queue)
                /\ handled' = [handled EXCEPT ![file_name] = "unchanged"]
                /\ UNCHANGED <<conn, columns, tables, bpc, pending,
                               files_errored, run_exc, runs, reads, alter>>
           ELSE /\ reads' = reads \cup {file_name}
                /\ columns' = [columns EXCEPT
                                 ![record_type.v] = out.columns]
                /\ alter' = IF has_frame(file_name)
                            THEN Some(add_columns_call(file_name, raced))
                            ELSE alter
                /\ IF ~out.raised
                   THEN /\ tables' = [tables EXCEPT
                                        ![record_type.v] = out.table]
                        /\ pending' = Some([file_name |-> file_name,
                                            file_hash |-> file_hash,
                                            record_type |-> record_type.v,
                                            rows_added |-> out.rows_added])
                        /\ handled' = [handled EXCEPT
                                         ![file_name] = out.returns]
                        /\ bpc' = "log"
                        /\ UNCHANGED <<conn, queue, files_skipped,
                                       files_errored, run_exc, runs>>
                   ELSE IF out.exc.type \in {"EmptyDataError", "ParserError"}
                   THEN /\ files_errored' = files_errored + 1
                        /\ queue' = Tail(queue)
                        /\ handled' = [handled EXCEPT
                                         ![file_name] = out.exc.type]
                        /\ UNCHANGED <<conn, tables, bpc, pending,
                                       files_skipped, run_exc, runs>>
                   ELSE /\ EndRun(out.exc)
                        /\ handled' = [handled EXCEPT
                                         ![file_name] = out.exc.type]
                        /\ UNCHANGED <<tables, queue, pending,
                                       files_skipped, files_errored>>
    /\ UNCHANGED <<fetch_vars, query_vars, interrupted, downloads, impl, disk, schema, log,
                   total_rows, files_processed, edits, edited, snapshot,
                   rerun>>

\* A log that keeps the entry a file name already has (INSERT OR IGNORE).
log_ingestion_once(file_name, file_hash, record_type, rows_ingested) ==
    IF log[file_name] # None THEN log
    ELSE [log EXCEPT ![file_name] =
            Some([file_hash |-> file_hash,
                  record_type |-> record_type,
                  rows_ingested |-> rows_ingested])]

\* log_ingestion: INSERT OR REPLACE of the entry of file_name, the primary key
\* of ingestion_log.
log_ingestion(file_name, file_hash, record_type, rows_ingested) ==
    [log EXCEPT ![file_name] =
        Some([file_hash |-> file_hash,
              record_type |-> record_type,
              rows_ingested |-> rows_ingested])]

\* The file ingested is logged and counted (lines 455-459).
LogFile ==
    /\ bpc = "log"
    /\ log' = log_ingestion(pending.v.file_name, pending.v.file_hash,
                            pending.v.record_type, pending.v.rows_added)
    /\ total_rows' = total_rows + pending.v.rows_added
    /\ files_processed' = files_processed + 1
    /\ queue' = Tail(queue)
    /\ pending' = None
    /\ bpc' = "loop"
    /\ UNCHANGED <<fetch_vars, query_vars, interrupted, downloads, alter, impl, disk, conn, schema, columns, tables,
                   files_skipped, files_errored, run_exc, runs, edits,
                   edited, snapshot, rerun, handled, reads>>

\* The run is interrupted between ingest_file and log_ingestion (lines 453
\* and 456): the rows to_sql appended are committed, the log entry is not
\* written, and the finally clause closes the connection. One interruption
\* is followed, that of a first run.
Interrupt ==
    /\ bpc = "log"
    /\ runs = 0
    /\ interrupted' = pending
    /\ pending' = None
    /\ queue' = <<>>
    /\ EndRun(Builtin("KeyboardInterrupt"))
    /\ UNCHANGED <<fetch_vars, query_vars, downloads, alter, impl, disk,
                   store, counters, edits, edited, snapshot, rerun, handled,
                   reads>>

\* The loop is over: the summary is logged and build_database returns.
FinishBuild ==
    /\ bpc = "loop"
    /\ queue = <<>>
    /\ EndRun(NoExc)
    /\ UNCHANGED <<fetch_vars, query_vars, interrupted, downloads, alter, impl, disk, store, queue, pending, counters,
                   edits, edited, snapshot, rerun, handled, reads>>

\* Between two runs a data file gets another content; an interrupted run
\* is resumed on the files it left.
EditFile ==
    /\ bpc = "idle"
    /\ interrupted = None
    /\ edits < MaxEdits
    /\ \E n \in FileNames :
        \E content \in versions(n) \ {disk[n]} :
            disk' = [disk EXCEPT ![n] = content]
    /\ edits' = edits + 1
    /\ edited' = TRUE
    /\ UNCHANGED <<fetch_vars, query_vars, interrupted, downloads, alter, impl, conn, store, bpc, queue, pending,
                   counters, run_exc, runs, snapshot, rerun, handled, reads>>

\* ------------------------------------------------ query_local_database

\* A test that takes the database file to be there.
database_exists_always == TRUE

\* database_exists(): DB_PATH.exists()
database_exists == db_exists

\* The call up to the loop over the tables: without a database file the
\* result is empty; otherwise the tables are chosen and the store is opened
\* (sqlite3.connect creates the file it does not find).
QueryCall ==
    /\ qpc = "call"
    /\ IF ~database_exists
       THEN /\ qpc' = "returned"
            /\ UNCHANGED <<db_exists, q_tables, q_conn>>
       ELSE /\ q_tables' = candidate_tables(search_field)
            /\ db_exists' = TRUE
            /\ q_conn' = "open"
            /\ qpc' = "table"
    /\ UNCHANGED <<local_rows, search_terms, q_exclude_terms, search_field,
                   q_limit, q_next, q_results, q_exc, q_seen>>
    /\ UNCHANGED <<fetch_vars, build_vars>>

\* One iteration of `for table in tables`: a table without the field is
\* skipped, otherwise its rows are selected, filtered and appended.
QueryTable ==
    /\ qpc = "table"
    /\ q_next <= Len(q_tables)
    /\ LET t == q_tables[q_next]
       IN  IF search_field \notin LocalColumns[t]
           THEN UNCHANGED <<q_results, q_seen>>
           ELSE /\ q_results' = q_results
                        \o kept_rows(t, search_terms, q_exclude_terms,
                                     search_field, q_limit)
                /\ q_seen' = q_seen
                        \o seen_rows(t, search_terms, q_exclude_terms,
                                     search_field, q_limit)
    /\ q_next' = q_next + 1
    /\ UNCHANGED <<db_exists, local_rows, search_terms, q_exclude_terms,
                   search_field,                   q_limit, qpc, q_tables, q_conn, q_exc>>
    /\ UNCHANGED <<fetch_vars, build_vars>>

\* A statement of an iteration raises: `except Exception` logs the error and
\* the function returns the results gathered so far; conn.close() is skipped.
QueryError ==
    /\ qpc = "table"
    /\ q_next <= Len(q_tables)
    /\ \E e \in SqliteErrors : q_exc' = e
    /\ qpc' = "returned"
    /\ UNCHANGED <<db_exists, local_rows, search_terms, q_exclude_terms,
                   search_field,                   q_limit, q_tables, q_next, q_results, q_conn, q_seen>>
    /\ UNCHANGED <<fetch_vars, build_vars>>

\* The loop is over: conn.close() and return results.
QueryReturn ==
    /\ qpc = "table"
    /\ q_next > Len(q_tables)
    /\ q_conn' = "closed"
    /\ qpc' = "returned"
    /\ UNCHANGED <<db_exists, local_rows, search_terms, q_exclude_terms,
                   search_field,                   q_limit, q_tables, q_next, q_results, q_exc, q_seen>>
    /\ UNCHANGED <<fetch_vars, build_vars>>

\* ------------------------------------------------------- main: the merge

\* main: the first search field mapped to a column of the local store, by
\* field_mapping or else by its last dotted segment.
local_field(field) ==
    LET field_mapping == [f \in {"mdr_text.text", "device.brand_name"} |->
                             IF f = "mdr_text.text" THEN "foi_text"
                                                    ELSE "brand_name"]
        parts == str_split(field, ".")
    IN  IF field \in DOMAIN field_mapping
        THEN field_mapping[field]
        ELSE parts[Len(parts)]

\* query_local_database as main calls it: the kept rows of the first `upto`
\* candidate tables, in the order of the tables and of their rows.
RECURSIVE local_results(_, _, _, _, _)
local_results(groups, excl, field, lim, upto) ==
    IF upto = 0
    THEN <<>>
    ELSE LET t == candidate_tables(field)[upto]
         IN  local_results(groups, excl, field, lim, upto - 1)
             \o (IF field \notin LocalColumns[t]
                 THEN <<>>
                 ELSE kept_rows(t, groups, excl, field, lim))

\* A merge that puts the local records first.
merge_local_first(remote, local) ==
    local \o remote

\* results.extend(local_results)
merge_results(remote, local) ==
    remote \o local

\* main after fetch_results has returned: when the local store exists it is
\* queried with the same groups and exclusions and its records are appended.
\* The store is looked for at this moment; a SQLite error ends the query
\* after the tables already read.
MainQuery ==
    /\ pc = "returned"
    /\ \E found \in BOOLEAN : db_exists' = found
    /\ IF database_exists'
       THEN LET field == local_field(search_fields[1])
                lim == IF max_pages = 1 THEN Some(limit) ELSE None
            IN  \E upto \in 0..Len(candidate_tables(field)) :
                    results' = merge_results(results,
                                   local_results(keywords, exclude_terms,
                                                 field, lim, upto))
       ELSE results' = results
    /\ pc' = "merged"
    /\ UNCHANGED <<build_vars>>
    /\ UNCHANGED <<local_rows, search_terms, q_exclude_terms, search_field,
                   q_limit, qpc, q_tables, q_next, q_results, q_conn, q_exc,
                   q_seen>>
    /\ UNCHANGED <<args, keywords, pages, sf, url, data_results, link_header,
                   response, fr, exc, requests>>

Next ==
    \/ FetchCall
    \/ NextField
    \/ Return
    \/ WhileEnd
    \/ RejectUrl
    \/ RequestPage
    \/ ProcessPage
    \/ RequestErrorEnvelope
    \/ RequestBadBody
    \/ RequestHTTPError
    \/ RequestURLError
    \/ MainQuery
    \/ DownloadFiles
    \/ DownloadEnds
    \/ StartBuild
    \/ HandleFile
    \/ LogFile
    \/ Interrupt
    \/ FinishBuild
    \/ EditFile
    \/ QueryCall
    \/ QueryTable
    \/ QueryError
    \/ QueryReturn

Spec == Init /\ [][Next]_vars

\* ------------------------------------------------ properties: fetch_results

HttpsLink == Some("<https://api.fda.gov/next>; rel=\"next\"")

\* The last page received has been filtered: fr is the outcome of
\* filter_results on data_results for the field of the last request.
page_filtered ==
    /\ response.kind = "page"
    /\ pc # "page"

\* A term of the group occurs in the text, whatever the case.
group_matches(group, text) ==
    \E k \in 1..Len(group) : str_in(str_lower(group[k]), text)

\* Every exclusion group has a term that occurs in the record's text.
matches_every_group(r, ex, field) ==
    \A g \in 1..Len(ex) : group_matches(ex[g], item_text(r, field).v)

\* C1: with non-empty exclude_terms, filter_results removes a record if and
\* only if every exclusion group has a term that is a case-insensitive
\* substring of the record's text; a record matching only some groups is
\* kept.
C1_RemovesIffEveryGroupMatches ==
    (/\ page_filtered
     /\ exclude_terms # None
     /\ exclude_terms.v # <<>>
     /\ ~fr.raised)
    => fr.v = SelectSeq(data_results,
                LAMBDA r : ~matches_every_group(r, exclude_terms.v,
                              search_fields[requests[Len(requests)].sf]))

\* C6: a search field is not asked for another page once the accumulated
\* results have reached limit or the page count has reached a non-zero
\* max_pages, whatever Link header the last page carried.
C6_PagingStopsAtCaps ==
    \A i \in 2..Len(requests) :
        requests[i].sf = requests[i - 1].sf
        => /\ requests[i].n < limit
           /\ max_pages = 0 \/ requests[i].pages < max_pages

\* C6 happens: a page with a continuation link brought the page count to
\* max_pages with fewer than limit results, and the loop left the field.
C6_Witness ==
    /\ page_filtered
    /\ link_header = HttpsLink
    /\ max_pages # 0
    /\ pages = max_pages
    /\ Len(results) < limit
    /\ pc = "for"
    /\ sf = requests[Len(requests)].sf + 1

\* The reset_time the rate-limit error is to carry for these headers.
reset_hint(headers) ==
    IF headers # None /\ "X-RateLimit-Reset" \in DOMAIN headers.v
    THEN Some(str_int(headers.v["X-RateLimit-Reset"]))
    ELSE None

\* C7: a request failing with status 429 raises APIRateLimitError whose
\* reset_time is the integer of the X-RateLimit-Reset header when present
\* and None when absent, also when the error carries no headers at all.
C7_RateLimitError ==
    (response.kind = "HTTPError" /\ response.code = 429)
    => /\ pc = "raised"
       /\ exc = APIRateLimitError(reset_hint(response.headers))

\* The message the response error is to carry for this error body.
server_message(body) ==
    IF /\ body.kind = "json"
       /\ body.value.t = "obj"
       /\ "error" \in DOMAIN body.value.v
       /\ body.value.v["error"].t = "obj"
       /\ "message" \in DOMAIN body.value.v["error"].v
    THEN body.value.v["error"].v["message"].v
    ELSE "Unknown error"

\* C8: a request failing with an HTTP status other than 429 raises
\* APIResponseError with that status and the server's error.message when
\* the body is JSON holding it, a default message otherwise; no other
\* exception escapes.
C8_ResponseError ==
    (response.kind = "HTTPError" /\ response.code # 429)
    => /\ pc = "raised"
       /\ exc = APIResponseError(response.code, server_message(response.body))

\* C9: a request failing with a URLError raises APIConnectionError
\* carrying str() of the underlying reason.
C9_ConnectionError ==
    response.kind = "URLError"
    => /\ pc = "raised"
       /\ exc = APIConnectionError(reason_str(response.reason))

\* C9 happens: the socket layer refused the connection.
C9_Witness ==
    /\ response.kind = "URLError"
    /\ response.reason.t = "OSError"
    /\ exc.type = "APIConnectionError"
    /\ exc.reason = "[Errno 111] Connection refused"

\* C10: a response body that is not valid JSON raises APIResponseError
\* with status_code 200 and a message reporting the decode failure.
C10_InvalidJSON ==
    response.kind = "body"
    => /\ pc = "raised"
       /\ exc.type = "APIResponseError"
       /\ exc.status_code = 200
       /\ str_startswith(exc.api_message, "Invalid JSON response")

\* The answers to a request that make it fail: a rate limit or another
\* HTTP error, a transport failure, a body that cannot be decoded, an
\* error envelope.
FailedAnswers == {"HTTPError", "URLError", "body", "envelope"}

\* C11: fetch_results never retries: once a request has failed, an
\* exception has left the invocation and no further request can be issued
\* by it.
C11_NeverRetries ==
    response.kind \in FailedAnswers
    => /\ pc = "raised"
       /\ exc # NoExc
       /\ ~can_request
       /\ ~ENABLED (RequestPage \/ RequestErrorEnvelope \/ RequestBadBody
                    \/ RequestHTTPError \/ RequestURLError)

\* C11 happens: the second request of a field whose first page carried a
\* continuation link failed at transport level, and nothing followed.
C11_Witness ==
    /\ response.kind = "URLError"
    /\ link_header = HttpsLink
    /\ Len(requests) = 2
    /\ Len(requests) < MaxRequests
    /\ pc = "raised"

\* C12: filter_results returns the records unchanged, same elements in the
\* same order, when exclude_terms is None or empty, and returns no record
\* for an empty record sequence whatever exclude_terms is.
C12_FilterIdentity ==
    page_filtered
    => /\ (exclude_terms = None \/ exclude_terms = Some(<<>>))
          => fr = Ok(data_results)
       /\ data_results = <<>> => fr = Ok(<<>>)

\* C12 happens: a page of four records went through the filter with an
\* empty exclude_terms.
C12_Witness ==
    /\ page_filtered
    /\ exclude_terms = Some(<<>>)
    /\ Len(data_results) = 4
    /\ fr.v = data_results

\* The page of test_fetch_results_with_exclusion and its exclusion groups.
ExclusionTestPage ==
    <<Record("MRI report"), Record("Artifact in MRI"),
      Record("Artifact with metal")>>

ExclusionTestGroups == Some(<< <<"artifact">>, <<"metal">> >>)

valid_terms ==
    \A i \in 1..Len(terms) :
        \/ terms[i].t = "str"
        \/ /\ terms[i].t = "iter"
           /\ \A j \in 1..Len(terms[i].v) : terms[i].v[j].t \in {"str", "int"}

\* The URL of the first request of a search field, for a rendered query.
first_url(field, query) ==
    Some(base_endpoint \o "?search=" \o field \o ":" \o query \o "&limit="
         \o (IF limit = 1 THEN "1" ELSE "5"))

\* C15: term compilation makes a singleton group of each string argument
\* and a group of the stringified elements of each iterable argument, in the
\* order of the arguments and of their elements; the query joins the terms of
\* a group with +OR+, parenthesizes each group and joins the groups with
\* +AND+: ("mri", ["stapes", "tympanostomy"]) compiles to [["mri"],
\* ["stapes", "tympanostomy"]] and renders as
\* (mri)+AND+(stapes+OR+tympanostomy).
C15_TermCompilation ==
    (pc \notin {"off", "call"} /\ valid_terms)
    => /\ Len(keywords) = Len(terms)
       /\ \A i \in 1..Len(terms) :
            IF terms[i].t = "str"
            THEN keywords[i] = <<terms[i].v>>
            ELSE /\ Len(keywords[i]) = Len(terms[i].v)
                 /\ \A j \in 1..Len(terms[i].v) :
                      keywords[i][j] = py_str(terms[i].v[j]).v
       /\ terms = <<TStr("mri"), TIter(<<TStr("stapes"), TStr("tympanostomy")>>)>>
          => /\ keywords = << <<"mri">>, <<"stapes", "tympanostomy">> >>
             /\ (pc = "while" /\ requests = <<>>)
                => url = first_url(search_fields[sf],
                                   "(mri)+AND+(stapes+OR+tympanostomy)")
       /\ terms = <<TIter(<<TInt(7), TStr("mri")>>)>>
          => /\ keywords = << <<"7", "mri">> >>
             /\ (pc = "while" /\ requests = <<>>)
                => url = first_url(search_fields[sf], "(7+OR+mri)")

\* C15 happens: the first URL of the mixed example has been built.
C15_Witness ==
    /\ terms = <<TStr("mri"), TIter(<<TStr("stapes"), TStr("tympanostomy")>>)>>
    /\ pc = "while"
    /\ requests = <<>>
    /\ keywords = << <<"mri">>, <<"stapes", "tympanostomy">> >>
    /\ url # None

\* The term argument is neither a string nor an iterable.
bad_argument(i) == terms[i].t \notin {"str", "iter"}

\* The elements of an iterable term argument str() fails on.
bad_elements(i) ==
    IF terms[i].t # "iter" THEN {}
    ELSE {j \in 1..Len(terms[i].v) : terms[i].v[j].t \notin {"str", "int"}}

\* The first term argument validation fails on.
first_invalid ==
    least({i \in 1..Len(terms) : bad_argument(i) \/ bad_elements(i) # {}})

\* C16: term validation fails before any request is issued: an argument
\* that is neither a string nor an iterable raises TypeError, and a group
\* element whose string conversion fails raises CantConvertToStringError
\* naming the type of that element.
C16_ValidationFailsFirst ==
    (pc \notin {"off", "call"} /\ ~valid_terms)
    => /\ pc = "raised"
       /\ requests = <<>>
       /\ response.kind = "none"
       /\ url = None
       /\ IF bad_argument(first_invalid)
          THEN exc.type = "TypeError"
          ELSE LET elem == terms[first_invalid]
                              .v[least(bad_elements(first_invalid))]
               IN  /\ exc.type = "CantConvertToStringError"
                   /\ exc.message = "Object of type <class '" \o elem.t
                          \o "'> can not be converted to a string"

\* C16 happens: an element str() fails on stopped the call.
C16_Witness ==
    /\ pc = "raised"
    /\ terms = <<TIter(<<TStr("mri"), TNoString>>)>>
    /\ exc.type = "CantConvertToStringError"
    /\ requests = <<>>

\* get_searchable_fields(): the fields a search may name.
get_searchable_fields ==
    {"mdr_text.text", "device.device_name", "device.brand_name",
     "report_number", "patient.age"}

\* The search fields that are not searchable.
invalid_fields ==
    {i \in 1..Len(search_fields) :
        search_fields[i] \notin get_searchable_fields}

\* C24: a search field that is not a valid searchable field is rejected
\* before any request is issued: fetch_results raises
\* InvalidSearchFieldError with the message "Invalid search field:
\* '<field>'".
C24_InvalidFieldRejected ==
    (pc \notin {"off", "call"} /\ valid_terms /\ invalid_fields # {})
    => /\ pc = "raised"
       /\ requests = <<>>
       /\ exc = InvalidSearchFieldError(search_fields[least(invalid_fields)])

\* ---------------------------------------------- properties: build_database

\* The loop is about to handle a classified file.
at_file ==
    /\ bpc = "loop"
    /\ queue # <<>>
    /\ classify_file(Head(queue)) # None

\* The log holds the file under the hash of its present content.
logged_as_is(n) ==
    IF log[n] = None THEN FALSE
    ELSE log[n].v.file_hash = compute_file_hash(disk[n])

\* The log holds the file under the hash of another content.
logged_otherwise(n) ==
    IF log[n] = None THEN FALSE
    ELSE log[n].v.file_hash # compute_file_hash(disk[n])

\* C2: a run of build_database on a file set unchanged since the previous
\* run leaves every table with the rows it had and every ingestion_log
\* entry with its file_hash, record_type and rows_ingested (no run having
\* been interrupted between an append and its log entry: C35 is about
\* those).
C2_RerunIsNoOp ==
    rerun /\ interrupted = None
        => /\ tables = snapshot.tables
           /\ log = snapshot.log

\* C2 happens: a second run over unchanged files has ended, on a store
\* the first run filled.
C2_Witness ==
    /\ rerun
    /\ bpc = "idle"
    /\ runs = 2
    /\ run_exc = NoExc
    /\ interrupted = None
    /\ tables["device"] # <<>>
    /\ log["foitext1996.zip"] # None
    /\ handled["device2000.zip"] = "unchanged"

\* C3: in the batch loop a file logged under the hash of its content is
\* skipped, neither parsed nor followed by any write to the store; a file
\* logged under another hash, or not logged, is parsed and, unless its
\* ingestion raises, goes on to be logged under its present hash.
C3_SkipIffSameHash ==
    [][at_file =>
        IF logged_as_is(Head(queue))
        THEN /\ reads' = reads
             /\ store' = store
             /\ queue' = Tail(queue)
             /\ bpc' = "loop"
        ELSE /\ Head(queue) \in reads'
             /\ \/ /\ bpc' = "log"
                   /\ pending' # None
                   /\ pending'.v.file_name = Head(queue)
                   /\ pending'.v.file_hash = compute_file_hash(disk[Head(queue)])
                \/ /\ bpc' = "idle"
                   /\ run_exc' # NoExc]_vars

\* C3 happens: in a run after a change of device2000.zip, that file was
\* parsed again and the unchanged foidev1998.txt was skipped.
C3_Witness ==
    /\ snapshot.log["device2000.zip"] # None
    /\ "device2000.zip" \in reads
    /\ handled["foidev1998.txt"] = "unchanged"
    /\ "foidev1998.txt" \notin reads

\* The row hashes of the rows of a file.
file_row_hashes(content) ==
    IF content.kind # "table" THEN {}
    ELSE {compute_row_hash(content.rows[i]) : i \in 1..Len(content.rows)}

\* C4: when a file logged under another hash is handled, its table only
\* grows at the end, by rows of the file whose row_hash the table did not
\* hold; no row_hash occurs twice afterwards, and when the rows of the file
\* are pairwise different every one of them is in the table.
C4_OnlyNewRowsAppended ==
    [][(at_file /\ logged_otherwise(Head(queue))) =>
        LET t == tables[classify_file(Head(queue)).v]
            t2 == tables'[classify_file(Head(queue)).v]
            file == disk[Head(queue)]
        IN  /\ Len(t) <= Len(t2)
            /\ SubSeq(t2, 1, Len(t)) = t
            /\ \A i \in (Len(t) + 1)..Len(t2) :
                /\ t2[i].row_hash \notin row_hashes(t)
                /\ t2[i].row_hash \in file_row_hashes(file)
            /\ \A i, j \in 1..Len(t2) :
                t2[i].row_hash = t2[j].row_hash => i = j
            /\ (/\ file.kind = "table"
                /\ Cardinality(file_row_hashes(file)) = Len(file.rows))
               => file_row_hashes(file) \subseteq row_hashes(t2)]_vars

\* C4 happens: device2000.zip was ingested, changed to a version sharing
\* the row of report 102, and ingested again: the table holds three rows.
C4_Witness ==
    /\ snapshot.log["device2000.zip"] # None
    /\ handled["device2000.zip"] = "rows"
    /\ Len(snapshot.tables["device"]) = 2
    /\ Len(tables["device"]) = 3
    /\ Cardinality({i \in 1..3 : tables["device"][i].cells[1] = Cell("102")})
       = 1

\* The files whose handling failed in this run: a parse failure, an
\* unreadable archive, a failed insert.
failed_files ==
    {n \in FileNames :
        handled[n] \in {"error reading", "EmptyDataError", "ParserError",
                        "BadZipFile", "IntegrityError"}}

\* C5: a processing exception for one file never aborts the batch: the
\* run does not end with the exception, each failure is counted in
\* files_errored, and every file of the sorted list is handled.
C5_FailureNeverAbortsBatch ==
    failed_files # {}
    => /\ run_exc = NoExc
       /\ bpc \in {"loop", "idle"}
          => files_errored = Cardinality(failed_files)
       /\ bpc = "idle" => \A n \in data_files : handled[n] # "no"

\* ---------------------------------------------- properties: query_local_database

\* A row of the local store as a flat record of the remote path.
as_item(result_dict) ==
    JObj([k \in DOMAIN result_dict |-> JStr(result_dict[k])])

\* The record survives filter_results.
survives_filter_results(result_dict, excl, field) ==
    filter_results(<<as_item(result_dict)>>, excl, field)
        = Ok(<<as_item(result_dict)>>)

\* C14: the local and the remote path apply the same exclusion semantics:
\* every row fetched by query_local_database survives its exclusion step if
\* and only if it survives filter_results with the same exclusion groups and
\* the same field.
C14_SameExclusion ==
    \A i \in 1..Len(q_seen) :
        q_seen[i].kept
        <=> survives_filter_results(q_seen[i].row, q_exclude_terms,
                                    search_field)

\* The file at the head of the queue leaves the queue in this step: its
\* handling is over, the run goes on.
file_done ==
    /\ bpc \in {"loop", "log"}
    /\ queue # <<>>
    /\ queue' = Tail(queue)

\* C17: after each file of a batch is handled, whether it was ingested or
\* skipped, the log holds an entry for its name carrying the hash of the
\* version handled; the log holds at most one entry per file name.
C17_LoggedAfterEachFile ==
    [][file_done
       => /\ log'[Head(queue)] # None
          /\ log'[Head(queue)].v.file_hash = [sha256 |-> disk[Head(queue)]]]_vars

\* C17, amended: an entry is written or overwritten exactly when a file has
\* been ingested, and then carries the hash of the version ingested; a file
\* that is skipped (unclassifiable or unchanged) leaves the log as it is, so
\* an unclassifiable file never has an entry. The log holds at most one entry
\* per file name. (A run interrupted between the ingestion and its entry
\* ends without writing to the log.)
C17_LoggedAfterEachIngestion ==
    [][/\ bpc = "log"
          => \/ /\ run_exc' = Builtin("KeyboardInterrupt")
                /\ log' = log
             \/ /\ file_done
                /\ log'[Head(queue)] # None
                /\ log'[Head(queue)].v.file_hash = [sha256 |-> disk[Head(queue)]]
                /\ \A n \in FileNames \ {Head(queue)} : log'[n] = log[n]
                /\ classify_file(Head(queue)) # None
       /\ bpc # "log" => log' = log]_vars

\* C17 happens: the entry of an edited file has been overwritten with the
\* hash of its new version, and an unclassifiable file was skipped.
C17_Witness ==
    \E n \in FileNames :
        /\ snapshot.log[n] # None
        /\ log[n] # None
        /\ log[n] # snapshot.log[n]
        /\ log[n].v.file_hash = [sha256 |-> disk[n]]
        /\ handled["mdrfoi.txt"] = "unclassified"
        /\ log["mdrfoi.txt"] = None

\* The marker occurs in the name, whatever the case of the name.
has_marker(name, marker) ==
    \E i \in 0..(Len(name) - Len(marker)) :
        \A k \in 1..Len(marker) :
            lower_char(char_at(name, i + k)) = char_at(marker, k)

\* C18: classify_file matches the markers as substrings, whatever the
\* case, in the order foitext, foidev, device: a name holding "foitext" is
\* foitext even if it also holds "device", and a name holding none of the
\* markers gives None (DEVICE2000.ZIP -> device, foitext1996.zip -> foitext,
\* readme.txt -> None); every file the loop has classified obeys it.
C18_ClassifyPriority ==
    bpc # "off"
    => /\ classify_file("DEVICE2000.ZIP") = Some("device")
       /\ classify_file("foitext1996.zip") = Some("foitext")
       /\ classify_file("readme.txt") = None
       /\ \A n \in FileNames :
           /\ handled[n] = "unclassified"
              <=> /\ handled[n] # "no"
                  /\ \A m \in RecordTypes : ~has_marker(n, m)
           /\ log[n] # None
              => log[n].v.record_type =
                   IF has_marker(n, "foitext") THEN "foitext"
                   ELSE IF has_marker(n, "foidev") THEN "foidev"
                   ELSE "device"

\* C18 happens: the file named with two markers was ingested as foitext and
\* the file without a marker was skipped.
C18_Witness ==
    /\ has_marker("Device_FOITEXT.zip", "device")
    /\ log["Device_FOITEXT.zip"] # None
    /\ log["Device_FOITEXT.zip"].v.record_type = "foitext"
    /\ handled["mdrfoi.txt"] = "unclassified"

\* C19: every connection to the local store opened by query_local_database
\* or build_database is closed when the operation is over, on every path,
\* those where an exception was raised or caught included.
C19_ConnectionsClosed ==
    /\ qpc = "returned" => q_conn # "open"
    /\ (bpc = "idle" /\ runs > 0) => conn = "closed"

\* C20: when a statement of a local query raises, on whichever candidate
\* table, query_local_database does not propagate the error and returns an
\* empty result set.
C20_ErrorGivesEmptyResult ==
    q_exc # NoExc => (qpc = "returned" /\ q_results = <<>>)

\* C21: when the database file does not exist, query_local_database
\* returns an empty list, raises nothing, opens no connection and does not
\* create the file.
C21_AbsentDatabase ==
    [][(qpc = "call" /\ ~db_exists)
       => /\ qpc' = "returned"
          /\ q_results' = <<>>
          /\ q_exc' = NoExc
          /\ q_conn' = "none"
          /\ ~db_exists']_vars

\* C21 happens: a query with search terms returned without a database file.
C21_Witness ==
    /\ qpc = "returned"
    /\ ~db_exists
    /\ search_terms # <<>>
    /\ q_results = <<>>
    /\ q_conn = "none"

\* C22: query_local_database called with a row limit n returns at most n
\* records in total, whatever the search field and the content of the store.
C22_LimitBoundsResult ==
    (qpc = "returned" /\ q_limit # None) => Len(q_results) <= q_limit.v

\* The value holds the term, whatever the case of either.
contains_term(value, term) ==
    \E i \in 0..(Len(value) - Len(term)) :
        \A k \in 1..Len(term) :
            lower_char(char_at(value, i + k)) = lower_char(char_at(term, k))

\* A query without exclusion groups and without limit has returned and no
\* statement raised.
plain_query_returned ==
    /\ qpc = "returned"
    /\ db_exists
    /\ q_exc = NoExc
    /\ q_limit = None
    /\ q_exclude_terms \in {None, Some(<<>>)}

\* The record without its _source tag.
untagged(r) == [k \in DOMAIN r \ {"_source"} |-> r[k]]

\* The rows of a table whose field holds a term of every group.
matching_rows(t) ==
    SelectSeq(local_rows[t],
              LAMBDA row : \A g \in 1..Len(search_terms) :
                              \E k \in 1..Len(search_terms[g]) :
                                  contains_term(row[search_field],
                                                search_terms[g][k]))

\* C23: query_local_database returns exactly the rows, from the routed
\* tables that have the search column, whose field value holds (whatever the
\* case) a term of every term group; an empty list of groups matches every
\* row; a candidate table without the column contributes nothing and raises
\* nothing.
C23_AndOfOrs ==
    plain_query_returned
    => LET having == SelectSeq(q_tables,
                        LAMBDA t : search_field \in LocalColumns[t])
       IN  /\ q_tables =
                IF search_field = "foi_text" THEN <<"foitext">>
                ELSE IF search_field = "brand_name"
                THEN <<"device", "foidev">>
                ELSE <<"device", "foitext", "foidev">>
           /\ [i \in 1..Len(q_results) |-> untagged(q_results[i])]
                = SeqConcat([i \in 1..Len(having) |->
                                matching_rows(having[i])])
           /\ search_terms = <<>>
              => Len(q_results) = Len(SeqConcat([i \in 1..Len(having) |->
                                                    local_rows[having[i]]]))

\* C23 happens: two groups selected the one narrative holding both terms.
C23_Witness ==
    /\ plain_query_returned
    /\ search_terms = << <<"mri">>, <<"pacemaker">> >>
    /\ search_field = "foi_text"
    /\ Len(q_results) = 1
    /\ q_results[1].foi_text = "MRI compatible pacemaker installed"

\* C25: build_database run with an empty download list returns without
\* raising and leaves a store with the four tables ingestion_log, device,
\* foitext and foidev; a second run on that store also succeeds and leaves
\* the same four tables.
C25_EmptyBuildCreatesTables ==
    (impl = "maudecli.db" /\ datafile_urls = {} /\ bpc = "idle" /\ runs > 0)
    => /\ run_exc = NoExc
       /\ schema = {"ingestion_log", "device", "foitext", "foidev"}

\* The rows the store holds, of whichever table.
stored_rows ==
    UNION {{tables[t][i] : i \in 1..Len(tables[t])} : t \in RecordTypes}

\* The rows of the files this run has parsed, each with its digest.
parsed_rows ==
    UNION {{hashed_frame(read_csv(disk[n]).v)[i] :
                i \in 1..Len(disk[n].rows)} :
           n \in {m \in reads : disk[m].kind = "table"}}

\* The cells in which two rows of equal length differ.
differing_cells(a, b) == {j \in 1..Len(a.cells) : a.cells[j] # b.cells[j]}

C28_RemoteThenLocal ==
    [][(pc = "returned" /\ pc' = "merged")
        => /\ Len(results') >= Len(results)
           /\ SubSeq(results', 1, Len(results)) = results
           /\ \A i \in (Len(results) + 1)..Len(results') :
                  /\ "_source" \in DOMAIN results'[i]
                  /\ \E t \in DOMAIN local_rows :
                         results'[i]["_source"] = "local_db:" \o t
           /\ \E upto \in 0..3 :
                  /\ upto <= Len(candidate_tables(local_field(search_fields[1])))
                  /\ SubSeq(results', Len(results) + 1, Len(results'))
                        = local_results(keywords, exclude_terms,
                              local_field(search_fields[1]),
                              IF max_pages = 1 THEN Some(limit) ELSE None,
                              upto)]_vars

C28_Witness ==
    /\ pc = "merged"
    /\ Len(results) >= 2
    /\ "_source" \notin DOMAIN results[1]
    /\ "_source" \in DOMAIN results[Len(results)]

\* ---------------------------------------------------------------- C29
\* C29: a failed download does not fail build_database and does not keep the
\* downloaded files from being ingested: after a run in which some downloads
\* failed, no exception has left build_database and every file whose download
\* succeeded has been processed.
C29_FailedDownloadTolerated ==
    (/\ impl = "maudecli.db"
     /\ bpc = "idle"
     /\ runs > 0
     /\ failed_downloads # {}
     /\ failed_downloads # datafile_urls)
    => /\ run_exc = NoExc
       /\ \A n \in datafile_urls \ failed_downloads : handled[n] # "no"

\* ---------------------------------------------------------------- C30
\* The record has no value under the dotted path: a key of the path is
\* missing.
lacks_key(r, field) ==
    /\ _get_item_text(r, field).raised
    /\ _get_item_text(r, field).exc = Builtin("KeyError")

\* C30: with non-empty exclude_terms, a record that lacks a key along the
\* exclusion field path is never silently dropped: filter_results raises, and
\* the error leaves fetch_results, or the record is in its output.
C30_MissingKeyNotDropped ==
    (/\ page_filtered
     /\ exclude_terms \notin {None, Some(<<>>)})
    => \A i \in 1..Len(data_results) :
           lacks_key(data_results[i], search_fields[requests[Len(requests)].sf])
           => \/ /\ fr.raised
                 /\ pc = "raised"
                 /\ exc = fr.exc
              \/ /\ ~fr.raised
                 /\ \E j \in 1..Len(fr.v) : fr.v[j] = data_results[i]

\* C30 happens: a page of records without the field was filtered with
\* exclusion groups and KeyError left fetch_results.
C30_Witness ==
    /\ page_filtered
    /\ exclude_terms = Some(<< <<"artifact">>, <<"metal">> >>)
    /\ Len(data_results) = 3
    /\ lacks_key(data_results[1], search_fields[requests[Len(requests)].sf])
    /\ fr.raised
    /\ fr.exc = Builtin("KeyError")
    /\ pc = "raised"

\* ---------------------------------------------------------------- C31
\* C31: with max_pages = m > 0 one invocation of fetch_results issues at
\* most m requests in total, and no request is issued once the accumulated
\* results have reached limit, for any number of search fields.
C31_TotalRequestsCapped ==
    /\ max_pages > 0 => Len(requests) <= max_pages
    /\ \A i \in 1..Len(requests) : requests[i].n < limit

\* ---------------------------------------------------------------- C32
\* The paging loop without the bookkeeping that only the properties read:
\* the requests are not recorded, and the page count is left alone where
\* nothing reads it (max_pages = 0 makes the stop test skip it).

\* urlopen answers with a page of results and a Link header.
PagingRequest ==
    /\ pc = "while"
    /\ url_truthy
    /\ url_allowed
    /\ \E page \in Pages, header \in LinkHeaders :
        /\ data_results' = page
        /\ link_header' = header
    /\ response' = [kind |-> "page", status |-> 200]
    /\ pc' = "page"
    /\ UNCHANGED <<build_vars, query_vars>>
    /\ UNCHANGED <<args, keywords, results, pages, sf, url, fr, exc, requests>>

\* The page is filtered and accumulated, and the loop stops or follows the
\* Link header.
PagingProcess ==
    /\ pc = "page"
    /\ LET out == filter_results(data_results, exclude_terms,
                                 search_fields[sf])
           kept == IF out.v # <<>> THEN results \o out.v ELSE results
           count == IF max_pages = 0 THEN pages ELSE pages + 1
       IN  /\ fr' = out
           /\ IF out.raised
              THEN /\ Raises(out.exc)
                   /\ UNCHANGED <<results, pages, sf, url>>
              ELSE /\ results' = kept
                   /\ pages' = count
                   /\ exc' = NoExc
                   /\ IF stop_paging(Len(kept), count)
                      THEN /\ sf' = sf + 1
                           /\ pc' = "for"
                           /\ UNCHANGED url
                      ELSE /\ url' = next_url(link_header)
                           /\ pc' = "while"
                           /\ UNCHANGED sf
    /\ UNCHANGED <<build_vars, query_vars>>
    /\ UNCHANGED <<args, keywords, data_results, link_header, response,
                   requests>>

\* fetch_results is called with max_pages = 0 and limit = 1: the first
\* record kept ends the paging of its field.
PagingInit == Init /\ pc = "call" /\ max_pages = 0 /\ limit = 1

PagingNext ==
    \/ FetchCall
    \/ NextField
    \/ Return
    \/ WhileEnd
    \/ RejectUrl
    \/ PagingRequest
    \/ PagingProcess
    \/ RequestErrorEnvelope
    \/ RequestBadBody
    \/ RequestHTTPError
    \/ RequestURLError

\* The interpreter keeps running and every request is answered or fails:
\* weak fairness of the steps other than PagingProcess, and a page that was
\* read is handled
\* (PagingProcess is enabled exactly when pc = "page" and leaves it, so its
\* weak fairness is []<>(pc # "page")).
PagingSpec ==
    /\ PagingInit
    /\ [][PagingNext]_vars
    /\ WF_vars(FetchCall \/ NextField \/ Return \/ WhileEnd \/ RejectUrl
               \/ PagingRequest \/ RequestErrorEnvelope \/ RequestBadBody
               \/ RequestHTTPError \/ RequestURLError)
    /\ []<>(pc # "page")

\* C32: fetch_results terminates: with max_pages = 0 the paging loop
\* eventually stops, by returning or by raising, whatever pages and Link
\* headers the server answers with.
C32_FetchTerminates ==
    (pc = "call" /\ max_pages = 0) ~> (pc \in {"returned", "raised"})

\* ---------------------------------------------------------------- C33
\* The target starts with http: or https: .
http_target(u) ==
    \/ SubSeq(u, 1, 5) = "http:"
    \/ SubSeq(u, 1, 6) = "https:"

FtpLink == Some("<ftp://api.fda.gov/next>; rel=\"next\"")

\* C33: every request, the first of a field and each followed continuation,
\* goes to a target that starts with http: or https:; a target that does not
\* raises ValueError without a request; the continuation followed is the
\* text between < and > of the Link header, and without a Link header the
\* paging of the field ends.
C33_TargetsChecked ==
    [][/\ requests' # requests
          => /\ pc = "while"
             /\ url # None
             /\ http_target(url.v)
             /\ url' = url
       /\ (pc = "while" /\ url # None /\ url.v # "" /\ ~http_target(url.v))
          => /\ pc' = "raised"
             /\ exc' = Builtin("ValueError")
             /\ requests' = requests
       /\ (pc = "page" /\ pc' = "while")
          => /\ link_header = HttpsLink => url' = Some("https://api.fda.gov/next")
             /\ link_header = FtpLink => url' = Some("ftp://api.fda.gov/next")
             /\ link_header = None => url' = None
       /\ (pc = "while" /\ url = None)
          => /\ pc' = "for"
             /\ sf' = sf + 1
             /\ requests' = requests]_vars

\* C33 happens: a followed continuation was rejected after the first page.
C33_Witness ==
    /\ pc = "raised"
    /\ exc = Builtin("ValueError")
    /\ url = Some("ftp://api.fda.gov/next")
    /\ Len(requests) = 1
    /\ link_header = FtpLink

\* ---------------------------------------------------------------- C34
\* C34: in build_database every write to the store (table creation, column
\* adds, row inserts, log writes) is a step of the one sequential control of
\* the build, taken after every download has ended: no write happens while
\* a download is running, and no write happens beside the step the build is
\* at.
C34_SingleWriter ==
    [][store' # store
       => /\ in_flight = {}
          /\ in_flight' = {}
          /\ bpc \in {"idle", "downloading", "loop", "log"}
          /\ <<bpc, queue, runs>>' # <<bpc, queue, runs>>
          /\ impl = "maudecli.db" => bpc = "downloading"]_vars

\* C34 happens: the downloads of a build of two URLs have ended, one of them
\* failed, and the tables were created afterwards.
C34_Witness ==
    /\ impl = "maudecli.db"
    /\ datafile_urls = DATAFILE_NAMES
    /\ failed_downloads = {"foitext1996.zip"}
    /\ in_flight = {}
    /\ schema = StoreTables
    /\ runs = 1

\* ---------------------------------------------------------------- C35
\* C35: the pipeline is resumable: when a run was interrupted after the
\* rows of a file were appended and before its log entry was written, a
\* later run on the same files handles that file again, leaves no row_hash
\* twice in its table, and ends with the log entry the interrupted run was
\* about to write.
C35_ResumeGivesSameResult ==
    (/\ bpc = "idle"
     /\ interrupted # None
     /\ rerun
     /\ run_exc = NoExc)
    => LET f == interrupted.v.file_name
           t == tables[interrupted.v.record_type]
       IN  /\ f \in reads
           /\ \A i, j \in 1..Len(t) : t[i].row_hash = t[j].row_hash => i = j
           /\ log[f] = Some([file_hash |-> interrupted.v.file_hash,
                             record_type |-> interrupted.v.record_type,
                             rows_ingested |-> interrupted.v.rows_added])

\* ---------------------------------------------------------------- C36
\* The file holds a row twice.
repeats_a_row(content) ==
    /\ content.kind = "table"
    /\ Cardinality(file_row_hashes(content)) < Len(content.rows)

\* C36: no table ever holds two rows with the same row_hash, and a file
\* that holds the same row twice is ingested without error and contributes
\* that row once.
C36_OneRowPerHash ==
    /\ \A t \in RecordTypes :
           \A i, j \in 1..Len(tables[t]) :
               tables[t][i].row_hash = tables[t][j].row_hash => i = j
    /\ \A n \in reads :
           (~edited /\ repeats_a_row(disk[n]))
           => /\ handled[n] = "rows"
              /\ run_exc = NoExc
              /\ file_row_hashes(disk[n])
                    \subseteq row_hashes(tables[classify_file(n).v])

\* ---------------------------------------------------------------- C37
\* C37: a file whose parse fails or whose archive is empty is counted as an
\* error and is not recorded as ingested: once the loop is past it, the log
\* holds no entry with its hash, so that a later run attempts it again.
C37_FailedFileNotLogged ==
    \A n \in FileNames :
        (/\ bpc \in {"loop", "idle"}
         /\ ~edited
         /\ handled[n] \in {"error reading", "empty zip"})
        => /\ files_errored >= 1
           /\ \/ log[n] = None
              \/ log[n].v.file_hash # compute_file_hash(disk[n])

\* ---------------------------------------------------------------- C38
\* C38: per file the steps are classify, hash, already-ingested check,
\* parse, schema evolution, row dedup, append, log.  A file without a marker
\* is only counted as skipped: it is not parsed, changes nothing in the
\* store and gets no log entry; a file logged under its hash is not parsed;
\* the rows appended have their columns in the table; and the log is
\* written by a step of its own, after the step that appended the rows of
\* the file it names, and changes nothing else.
C38_StepsInOrder ==
    [][/\ (bpc = "loop" /\ queue # <<>>)
          => /\ log' = log
             /\ (\A m \in RecordTypes : ~has_marker(Head(queue), m))
                => /\ reads' = reads
                   /\ store' = store
                   /\ pending' = pending
                   /\ bpc' = "loop"
                   /\ handled'[Head(queue)] = "unclassified"
             /\ (/\ log[Head(queue)] # None
                 /\ log[Head(queue)].v.file_hash = sha256(disk[Head(queue)]))
                => /\ reads' = reads
                   /\ store' = store
             /\ tables' # tables
                => /\ Head(queue) \in reads'
                   /\ bpc' = "log"
                   /\ pending' # None
                   /\ pending'.v.file_name = Head(queue)
                   /\ \A t \in RecordTypes :
                        \A i \in (Len(tables[t]) + 1)..Len(tables'[t]) :
                          \A j \in 1..Len(tables'[t][i].header) :
                            safe_col(tables'[t][i].header[j]) \in columns'[t]
       /\ log' # log
          => /\ bpc = "log"
             /\ pending # None
             /\ pending.v.file_name = Head(queue)
             /\ Head(queue) \in reads
             /\ tables' = tables
             /\ columns' = columns
             /\ \A n \in FileNames \ {Head(queue)} : log'[n] = log[n]]_vars

\* C38 happens: in one run the file without a marker was skipped unparsed
\* and a device file was parsed, appended and then logged.
C38_Witness ==
    /\ bpc = "loop"
    /\ handled["mdrfoi.txt"] = "unclassified"
    /\ "mdrfoi.txt" \notin reads
    /\ log["mdrfoi.txt"] = None
    /\ handled["device2000.zip"] = "rows"
    /\ "device2000.zip" \in reads
    /\ log["device2000.zip"] # None
    /\ log["device2000.zip"].v.rows_ingested = 2

====
